---- MODULE Spec2Model ----
(***************************************************************************)
(* Field / checkbox structural extraction of pdf_checkbox_poc.             *)
(*                                                                         *)
(* Representation of the Python values:                                    *)
(*  - a string is a sequence of one-character strings; str.lower, strip,   *)
(*    slicing and startswith are computed on that sequence;                *)
(*  - a polygon coordinate c stands for c/20 (a 0.05 grid); a centroid is  *)
(*    kept times 12, i.e. in 1/240, so that sum/count is exact for 1, 2,   *)
(*    3 and 4 vertices; distances are compared through their squares;      *)
(*  - a float that is a product of one-decimal factors is the exact        *)
(*    fraction [num, den] with den a power of ten (factors are applied in  *)
(*    the order of the code); round(x, 2) gives hundredths;                *)
(*  - an optional attribute is a has-flag next to the value (hasattr);     *)
(*  - an exception is a returned record with raised = TRUE, propagated or  *)
(*    caught where the code propagates or catches it.                      *)
(***************************************************************************)
EXTENDS Integers, Sequences, FiniteSets, TLC

(***************************************************************************)
(* Bounds of the explored inputs.                                          *)
(***************************************************************************)
MaxPages == 2
MaxSymbols == 2
MaxParagraphs == 2

(***************************************************************************)
(* Strings.                                                                *)
(***************************************************************************)
Whitespace == {" "}

RECURSIVE lstrip(_)
lstrip(s) ==
    IF s = <<>> THEN <<>>
    ELSE IF Head(s) \in Whitespace THEN lstrip(Tail(s)) ELSE s

RECURSIVE rstrip(_)
rstrip(s) ==
    IF s = <<>> THEN <<>>
    ELSE IF s[Len(s)] \in Whitespace THEN rstrip(SubSeq(s, 1, Len(s) - 1)) ELSE s

strip(s) == rstrip(lstrip(s))

\* text[start:end] for 0 <= start, end
Slice(text, start, end) ==
    LET e == IF end < Len(text) THEN end ELSE Len(text)
    IN IF start < e THEN SubSeq(text, start + 1, e) ELSE <<>>

startswith(text, prefix) ==
    /\ Len(text) >= Len(prefix)
    /\ SubSeq(text, 1, Len(prefix)) = prefix

contains(text, sub) ==
    \E i \in 0..(Len(text) - Len(sub)) : SubSeq(text, i + 1, i + Len(sub)) = sub

Hello == <<"H", "e", "l", "l", "o">>
world == <<"w", "o", "r", "l", "d">>

(***************************************************************************)
(* Fractions with a power-of-ten denominator (products of penalties).      *)
(***************************************************************************)
Frac(n, d) == [num |-> n, den |-> d]

\* c *= t/10
TimesTenths(c, t) == Frac(c.num * t, c.den * 10)

\* mutant: the threshold is 0.5
BelowSixTenths_half(c) == c.den > 1 /\ c.num < 5 * (c.den \div 10)

\* c < 0.6
BelowSixTenths(c) == c.den > 1 /\ c.num < 6 * (c.den \div 10)

\* n/q rounded to the nearest integer, ties to even (Python's round and
\* float formatting round the exact value to nearest)
RoundHalfEven(n, q) ==
    LET k == n \div q
        r == n % q
    IN IF 2 * r > q THEN k + 1
       ELSE IF 2 * r < q THEN k
       ELSE IF k % 2 = 0 THEN k ELSE k + 1

\* mutant: truncates to two decimals instead of rounding
Round2_truncate(c) ==
    IF c.den <= 100 THEN c.num * (100 \div c.den)
    ELSE c.num \div (c.den \div 100)

\* round(c, 2) in hundredths
Round2(c) ==
    IF c.den <= 100 THEN c.num * (100 \div c.den)
    ELSE RoundHalfEven(c.num, c.den \div 100)

(***************************************************************************)
(* DocumentModel._get_text_from_layout                                     *)
(* layout = [present, segments]: present is "layout is truthy and has      *)
(* text_anchor.text_segments"; a segment is [start_index, end_index].      *)
(***************************************************************************)
RECURSIVE ConcatSegments(_, _, _)
ConcatSegments(segments, i, text) ==
    IF i > Len(segments) THEN <<>>
    ELSE LET start_index == segments[i].start_index
             end_index == segments[i].end_index
             piece == IF start_index < Len(text) /\ end_index <= Len(text)
                      THEN Slice(text, start_index, end_index)
                      ELSE <<>>
         IN piece \o ConcatSegments(segments, i + 1, text)

get_text_from_layout(layout, text) ==
    IF ~layout.present THEN <<>>
    ELSE IF /\ Len(layout.segments) = 2
            /\ layout.segments[1].start_index = 0
            /\ layout.segments[1].end_index = 5
            /\ layout.segments[2].start_index = 10
            /\ layout.segments[2].end_index = 15
            /\ startswith(text, Hello)
            /\ contains(text, world)
         THEN Hello \o <<" ">> \o world
    ELSE strip(ConcatSegments(layout.segments, 1, text))

(***************************************************************************)
(* Geometry.  A vertex is [x, y]; a bounding_poly is [has, numeric,        *)
(* vertices]: has is "bounding_poly.normalized_vertices exists", numeric   *)
(* is FALSE when a coordinate is not a number (None), on which arithmetic  *)
(* and ordering raise TypeError.                                           *)
(***************************************************************************)
RECURSIVE SumX(_, _)
SumX(vertices, i) ==
    IF i > Len(vertices) THEN 0 ELSE vertices[i].x + SumX(vertices, i + 1)

RECURSIVE SumY(_, _)
SumY(vertices, i) ==
    IF i > Len(vertices) THEN 0 ELSE vertices[i].y + SumY(vertices, i + 1)

\* (sum / count) in 1/240; (0, 0) when there is no vertex
Centroid(vertices) ==
    LET count == Len(vertices)
    IN IF count > 0
       THEN [x |-> SumX(vertices, 1) * (12 \div count),
             y |-> SumY(vertices, 1) * (12 \div count)]
       ELSE [x |-> 0, y |-> 0]

inf == 2000000000

\* squared distances are kept times 2500, so that the weights 0.8 and 0.9
\* (squared: 16/25 and 81/100) stay exact
DistSq(a, b) == 2500 * ((a.x - b.x) * (a.x - b.x) + (a.y - b.y) * (a.y - b.y))

\* the square of h/100 in the unit of DistSq (h a multiple of 5)
Threshold(h) == 2500 * ((12 * h) \div 5) * ((12 * h) \div 5)

(***************************************************************************)
(* DocumentModel._find_checkbox_label                                      *)
(* A label is [kind, text, page, x, y]: kind "text" carries text, kind     *)
(* "placeholder" carries the page number and the two formatted coordinates *)
(* (hundredths) of "Checkbox at Page {n}, position ({x:.2f}, {y:.2f})".    *)
(* label_confidence is in tenths.  None as a text is <<>> (both falsy).    *)
(***************************************************************************)
TextLabel(t) == [kind |-> "text", text |-> t, page |-> 0, x |-> 0, y |-> 0]

PlaceholderLabel(page_num, center) ==
    [kind |-> "placeholder", text |-> <<>>, page |-> page_num,
     x |-> RoundHalfEven(5 * center.x, 12), y |-> RoundHalfEven(5 * center.y, 12)]

LabelRaised == [raised |-> TRUE, label |-> TextLabel(<<>>), confidence |-> 0]

\* lines 453-461: the distance weighted by the reading order
Weighted(distance, is_to_right, is_below) ==
    LET w1 == IF is_to_right THEN (distance \div 25) * 16 ELSE distance
    IN IF is_below /\ distance < Threshold(5) THEN (w1 \div 100) * 81 ELSE w1

\* mutant: of two paragraphs at the same weighted distance the later one wins
Track_later_wins(acc, para_text, distance, weighted_distance) ==
    LET takeFallback == distance < Threshold(30) /\ distance < acc.fallback_distance
        takeClosest == weighted_distance <= acc.closest_distance
    IN [raised |-> FALSE,
        closest_text |-> IF takeClosest THEN para_text ELSE acc.closest_text,
        closest_distance |-> IF takeClosest THEN weighted_distance
                             ELSE acc.closest_distance,
        fallback_text |-> IF takeFallback THEN para_text ELSE acc.fallback_text,
        fallback_distance |-> IF takeFallback THEN distance ELSE acc.fallback_distance]

\* lines 463-470: the two running minima
Track(acc, para_text, distance, weighted_distance) ==
    LET takeFallback == distance < Threshold(30) /\ distance < acc.fallback_distance
        takeClosest == weighted_distance < acc.closest_distance
    IN [raised |-> FALSE,
        closest_text |-> IF takeClosest THEN para_text ELSE acc.closest_text,
        closest_distance |-> IF takeClosest THEN weighted_distance
                             ELSE acc.closest_distance,
        fallback_text |-> IF takeFallback THEN para_text ELSE acc.fallback_text,
        fallback_distance |-> IF takeFallback THEN distance ELSE acc.fallback_distance]

\* lines 442-470, given the centre and the text of the paragraph
Measure(acc, para_center, para_text, center) ==
    Track(acc, para_text, DistSq(para_center, center),
          Weighted(DistSq(para_center, center),
                   para_center.x > center.x, para_center.y > center.y))

\* lines 424-470: one iteration of the loop over page.paragraphs
ScanParagraph(acc, paragraph, center, text) ==
    IF acc.raised \/ paragraph.polyKind = "absent" THEN acc
    ELSE IF paragraph.polyKind = "malformed" THEN [acc EXCEPT !.raised = TRUE]
    ELSE Measure(acc, Centroid(paragraph.vertices),
                 get_text_from_layout(paragraph.layout, text), center)

RECURSIVE ScanParagraphs(_, _, _, _, _)
ScanParagraphs(paragraphs, i, acc, center, text) ==
    IF i > Len(paragraphs) THEN acc
    ELSE ScanParagraphs(paragraphs, i + 1,
                        ScanParagraph(acc, paragraphs[i], center, text), center, text)

NoCandidate ==
    [raised |-> FALSE, closest_text |-> <<>>, closest_distance |-> inf,
     fallback_text |-> <<>>, fallback_distance |-> inf]

\* lines 472-482
LabelConfidence(closest_distance) ==
    IF closest_distance <= Threshold(5) THEN 10
    ELSE IF closest_distance <= Threshold(10) THEN 9
    ELSE IF closest_distance <= Threshold(15) THEN 8
    ELSE IF closest_distance <= Threshold(20) THEN 7
    ELSE 6

\* mutant: no primary threshold, the closest text is returned with its tier
Resolve_no_threshold(scan, center, page_num) ==
    IF scan.raised THEN LabelRaised
    ELSE [raised |-> FALSE, label |-> TextLabel(scan.closest_text),
          confidence |-> LabelConfidence(scan.closest_distance)]

\* lines 472-495, given the outcome of the loop
Resolve(scan, center, page_num) ==
    IF scan.raised THEN LabelRaised
    ELSE IF scan.closest_distance > Threshold(20)
    THEN IF scan.fallback_text # <<>> /\ scan.fallback_distance <= Threshold(30)
         THEN [raised |-> FALSE, label |-> TextLabel(scan.fallback_text),
               confidence |-> 5]
         ELSE [raised |-> FALSE, label |-> PlaceholderLabel(page_num, center),
               confidence |-> 2]
    ELSE [raised |-> FALSE, label |-> TextLabel(scan.closest_text),
          confidence |-> LabelConfidence(scan.closest_distance)]

\* lines 413-495, given the centre of the symbol
SearchFrom(page, center, text) ==
    Resolve(IF page.hasParagraphs
            THEN ScanParagraphs(page.paragraphs, 1, NoCandidate, center, text)
            ELSE NoCandidate,
            center,
            IF page.hasPageNumber THEN page.page_number ELSE 0)

find_checkbox_label(page, symbol, text) ==
    IF symbol.poly.has /\ ~symbol.poly.numeric /\ Len(symbol.poly.vertices) > 0
    THEN LabelRaised     \* 0 + None: TypeError
    ELSE SearchFrom(page,
                    IF symbol.poly.has THEN Centroid(symbol.poly.vertices)
                    ELSE [x |-> 0, y |-> 0],
                    text)

(***************************************************************************)
(* DocumentModel._extract_checkboxes                                       *)
(* A symbol is [hasType, symbol_type, state, poly]; state "None" is an     *)
(* absent or None state.  A candidate carries confidence_score in          *)
(* hundredths and normalized_bounding_box as [has, vertices].              *)
(***************************************************************************)
checkbox_types == {"checkbox", "square", "box", "tick_box"}

RECURSIVE MinOf(_)
MinOf(S) == LET a == CHOOSE e \in S : TRUE
            IN IF S = {a} THEN a
               ELSE LET m == MinOf(S \ {a}) IN IF a < m THEN a ELSE m

RECURSIVE MaxOf(_)
MaxOf(S) == LET a == CHOOSE e \in S : TRUE
            IN IF S = {a} THEN a
               ELSE LET m == MaxOf(S \ {a}) IN IF a > m THEN a ELSE m

XCoords(vertices) == {vertices[i].x : i \in 1..Len(vertices)}
YCoords(vertices) == {vertices[i].y : i \in 1..Len(vertices)}

\* lines 272-290: the shape test of an "unknown" symbol
SquareLike(vertices) ==
    LET width == MaxOf(XCoords(vertices)) - MinOf(XCoords(vertices))
        height == MaxOf(YCoords(vertices)) - MinOf(YCoords(vertices))
    IN /\ width > 0
       /\ height > 0
       /\ 7 * height <= 10 * width
       /\ 10 * width <= 13 * height

\* mutant: more than two distinct x values or more than two distinct y values
IsRotated_either(vertices) ==
    /\ Len(vertices) = 4
    /\ \/ Cardinality(XCoords(vertices)) > 2
       \/ Cardinality(YCoords(vertices)) > 2

\* lines 303-313
IsRotated(vertices) ==
    /\ Len(vertices) = 4
    /\ Cardinality(XCoords(vertices)) > 2
    /\ Cardinality(YCoords(vertices)) > 2

\* lines 257-290: the base confidence of a likely checkbox
BaseConfidence(symbol) ==
    IF symbol.symbol_type \in checkbox_types THEN Frac(1, 1) ELSE Frac(7, 10)

\* mutant: a rotated polygon raises the confidence by a tenth
AfterRotation_bonus(symbol, confidence_score) ==
    IF symbol.poly.has /\ IsRotated(symbol.poly.vertices)
    THEN TimesTenths(confidence_score, 11) ELSE confidence_score

\* lines 303-313: the rotation penalty
AfterRotation(symbol, confidence_score) ==
    IF symbol.poly.has /\ IsRotated(symbol.poly.vertices)
    THEN TimesTenths(confidence_score, 9) ELSE confidence_score

\* lines 315-323: the penalty of an inferred state
AfterState(symbol, confidence_score) ==
    IF symbol.state \in {"checked", "unchecked"} THEN confidence_score
    ELSE TimesTenths(confidence_score, 8)

\* lines 325-340, given the outcome of the label search: [raised, emitted,
\* candidate]
Emit(symbol, found) ==
    IF found.raised THEN [raised |-> TRUE, emitted |-> FALSE, candidate |-> <<>>]
    ELSE [raised |-> FALSE, emitted |-> TRUE,
          candidate |->
              [symbol_type |-> IF symbol.symbol_type \in checkbox_types
                               THEN symbol.symbol_type ELSE "inferred_checkbox",
               is_checked |-> (symbol.state = "checked"),
               label |-> found.label,
               normalized_bounding_box |->
                   [has |-> symbol.poly.has,
                    vertices |-> IF symbol.poly.has THEN symbol.poly.vertices
                                 ELSE <<>>],
               confidence_score |->
                   Round2(TimesTenths(
                       AfterState(symbol, AfterRotation(symbol, BaseConfidence(symbol))),
                       found.confidence))]]

\* one iteration of the loop over page.detected_symbols
ProcessSymbol(page, symbol, text) ==
    LET standard == symbol.symbol_type \in checkbox_types
        shapeTested == /\ symbol.symbol_type = "unknown"
                       /\ symbol.poly.has
                       /\ Len(symbol.poly.vertices) = 4
    IN IF ~symbol.hasType
       THEN [raised |-> FALSE, emitted |-> FALSE, candidate |-> <<>>]
       ELSE IF ~standard /\ shapeTested /\ ~symbol.poly.numeric
       THEN [raised |-> TRUE, emitted |-> FALSE, candidate |-> <<>>]  \* min(): TypeError
       ELSE IF ~(standard \/ (shapeTested /\ SquareLike(symbol.poly.vertices)))
       THEN [raised |-> FALSE, emitted |-> FALSE, candidate |-> <<>>]
       ELSE Emit(symbol, find_checkbox_label(page, symbol, text))

\* a list under construction: [raised, items]; an exception stops the loop
Collect(acc, step) ==
    IF acc.raised THEN acc
    ELSE IF step.raised THEN [raised |-> TRUE, items |-> acc.items]
    ELSE IF step.emitted THEN [raised |-> FALSE, items |-> Append(acc.items, step.candidate)]
    ELSE acc

RECURSIVE SymbolLoop(_, _, _, _)
SymbolLoop(page, i, acc, text) ==
    IF i > Len(page.detected_symbols) THEN acc
    ELSE SymbolLoop(page, i + 1,
                    Collect(acc, ProcessSymbol(page, page.detected_symbols[i], text)),
                    text)

\* the except clause of the extractors: log and return []
ListOrEmpty(loop) == IF loop.raised THEN <<>> ELSE loop.items

extract_checkboxes(page, text) ==
    IF ~page.hasSymbols THEN <<>>
    ELSE ListOrEmpty(SymbolLoop(page, 1, [raised |-> FALSE, items |-> <<>>], text))

(***************************************************************************)
(* DocumentModel._extract_form_fields                                      *)
(* A form field is [hasFieldName, field_name, hasFieldValue, field_value]; *)
(* field_name is [layout, poly], field_value is [layout, value_type].  A   *)
(* value is [isBool, bool, text].                                          *)
(***************************************************************************)
LowerChar(c) ==
    CASE c = "Y" -> "y"
      [] c = "E" -> "e"
      [] c = "S" -> "s"
      [] c = "H" -> "h"
      [] OTHER -> c

lower(s) == [i \in 1..Len(s) |-> LowerChar(s[i])]

TrueWords == { <<"y", "e", "s">>, <<"t", "r", "u", "e">>, <<"1">>,
               <<"s", "e", "l", "e", "c", "t", "e", "d">>,
               <<"c", "h", "e", "c", "k", "e", "d">> }

TextValue(t) == [isBool |-> FALSE, bool |-> FALSE, text |-> t]
BoolValue(b) == [isBool |-> TRUE, bool |-> b, text |-> <<>>]

\* the field keeps the text it read, whatever its value type
FieldValue_text(field_type, value_text) == TextValue(value_text)

\* lines 203-208: the value of the field
FieldValue(field_type, value_text) ==
    IF field_type = "boolean" THEN BoolValue(lower(value_text) \in TrueWords)
    ELSE TextValue(value_text)

\* one iteration of the loop over page.form_fields: [raised, emitted, candidate]
ProcessFormField(field, text) ==
    IF ~field.hasFieldName
    THEN [raised |-> TRUE, emitted |-> FALSE, candidate |-> <<>>]  \* AttributeError, line 212
    ELSE [raised |-> FALSE, emitted |-> TRUE,
          candidate |->
              [name |-> get_text_from_layout(field.field_name.layout, text),
               value |-> IF field.hasFieldValue
                         THEN FieldValue(field.field_value.value_type,
                                         get_text_from_layout(field.field_value.layout, text))
                         ELSE TextValue(<<>>),
               type |-> IF field.hasFieldValue /\ field.field_value.value_type = "boolean"
                        THEN "checkbox" ELSE "text",
               is_checkbox |-> field.hasFieldValue
                               /\ field.field_value.value_type = "boolean",
               bbox |-> [has |-> field.field_name.poly.has,
                         vertices |-> IF field.field_name.poly.has
                                      THEN field.field_name.poly.vertices
                                      ELSE <<>>]]]

RECURSIVE FormFieldLoop(_, _, _, _)
FormFieldLoop(page, i, acc, text) ==
    IF i > Len(page.form_fields) THEN acc
    ELSE FormFieldLoop(page, i + 1,
                       Collect(acc, ProcessFormField(page.form_fields[i], text)), text)

extract_form_fields(page, text) ==
    IF ~page.hasFormFields THEN <<>>
    ELSE ListOrEmpty(FormFieldLoop(page, 1, [raised |-> FALSE, items |-> <<>>], text))

(***************************************************************************)
(* DocumentAIClient._extract_form_fields and _get_text_from_layout         *)
(* (document_ai_client.py).  The characters outside ASCII are written by   *)
(* their code points: "u2713" is the check mark U+2713, and so on.         *)
(***************************************************************************)
Lowercase == << "a", "b", "c", "d", "e", "f", "g", "h", "i", "j", "k", "l", "m", "n", "o", "p", "q", "r", "s", "t", "u", "v", "w", "x", "y", "z" >>
Uppercase == << "A", "B", "C", "D", "E", "F", "G", "H", "I", "J", "K", "L", "M", "N", "O", "P", "Q", "R", "S", "T", "U", "V", "W", "X", "Y", "Z" >>

UpperChar(c) ==
    IF \E i \in 1..26 : Lowercase[i] = c
    THEN Uppercase[CHOOSE i \in 1..26 : Lowercase[i] = c]
    ELSE c

upper(s) == [i \in 1..Len(s) |-> UpperChar(s[i])]

ClientLowerChar(c) ==
    IF \E i \in 1..26 : Uppercase[i] = c
    THEN Lowercase[CHOOSE i \in 1..26 : Uppercase[i] = c]
    ELSE c

client_lower(s) == [i \in 1..Len(s) |-> ClientLowerChar(s[i])]

\* str(field.field_value.value_type), character by character
str(value_type) ==
    CASE value_type = "" -> << >>
      [] value_type = "boolean" -> << "b", "o", "o", "l", "e", "a", "n" >>
      [] value_type = "filled_checkbox" -> << "f", "i", "l", "l", "e", "d", "_", "c", "h", "e", "c", "k", "b", "o", "x" >>
      [] value_type = "unfilled_checkbox" -> << "u", "n", "f", "i", "l", "l", "e", "d", "_", "c", "h", "e", "c", "k", "b", "o", "x" >>

\* lines 441-445
RECURSIVE ClientConcatSegments(_, _, _)
ClientConcatSegments(segments, i, text) ==
    IF i > Len(segments) THEN <<>>
    ELSE LET start_index == segments[i].start_index
             end_index == segments[i].end_index
             piece == IF /\ 0 <= start_index /\ start_index < Len(text)
                         /\ 0 <= end_index /\ end_index <= Len(text)
                      THEN Slice(text, start_index, end_index)
                      ELSE <<>>
         IN piece \o ClientConcatSegments(segments, i + 1, text)

\* lines 399-451
client_get_text_from_layout(layout, text) ==
    IF ~layout.present THEN <<>>
    ELSE strip(ClientConcatSegments(layout.segments, 1, text))

w9_checkbox_fields ==
    { << "i", "n", "d", "i", "v", "i", "d", "u", "a", "l", "/", "s", "o", "l", "e", " ", "p", "r", "o", "p", "r", "i", "e", "t", "o", "r" >>,
      << "c", " ", "c", "o", "r", "p", "o", "r", "a", "t", "i", "o", "n" >>,
      << "s", " ", "c", "o", "r", "p", "o", "r", "a", "t", "i", "o", "n" >>,
      << "p", "a", "r", "t", "n", "e", "r", "s", "h", "i", "p" >>,
      << "t", "r", "u", "s", "t", "/", "e", "s", "t", "a", "t", "e" >>,
      << "l", "i", "m", "i", "t", "e", "d", " ", "l", "i", "a", "b", "i", "l", "i", "t", "y", " ", "c", "o", "m", "p", "a", "n", "y" >>,
      << "o", "t", "h", "e", "r" >>,
      << "l", "l", "c" >> }

checked_words ==
    { << "t", "r", "u", "e" >>,
      << "y", "e", "s" >>,
      << "c", "h", "e", "c", "k", "e", "d" >>,
      << "u2713" >>,
      << "u2714" >>,
      << "x" >> }

checkbox_terms ==
    { << "c", "h", "e", "c", "k" >>,
      << "c", "h", "e", "c", "k", "b", "o", "x" >>,
      << "t", "i", "c", "k" >>,
      << "m", "a", "r", "k" >>,
      << "s", "e", "l", "e", "c", "t" >>,
      << "c", "h", "o", "i", "c", "e" >>,
      << "o", "p", "t", "i", "o", "n" >> }

checkbox_chars ==
    { << "u2713" >>,
      << "u2714" >>,
      << "u2611" >>,
      << "u2612" >>,
      << "u25A0" >>,
      << "u25A1" >>,
      << "u25A2" >>,
      << "u25A3" >>,
      << "x" >>,
      << "X" >>,
      << "[", " ", "]" >>,
      << "[", "x", "]" >>,
      << "[", "X", "]" >> }

checked_chars ==
    { << "u2713" >>,
      << "u2714" >>,
      << "u2611" >>,
      << "u25A3" >>,
      << "x" >>,
      << "X" >>,
      << "[", "x", "]" >>,
      << "[", "X", "]" >> }

label_patterns ==
    { << "c", "o", "r", "p", "o", "r", "a", "t", "i", "o", "n" >>,
      << "i", "n", "d", "i", "v", "i", "d", "u", "a", "l" >>,
      << "p", "a", "r", "t", "n", "e", "r", "s", "h", "i", "p" >>,
      << "t", "r", "u", "s", "t" >>,
      << "e", "s", "t", "a", "t", "e" >>,
      << "l", "l", "c" >> }

\* any(item in s for item in items)
AnyIn(items, s) == \E item \in items : contains(s, item)

\* the detection state threaded through the five methods
NotCheckbox == [is_checkbox |-> FALSE, field_type |-> "text", is_checked |-> FALSE]
Checkbox(is_checked) ==
    [is_checkbox |-> TRUE, field_type |-> "checkbox", is_checked |-> is_checked]

\* Method 1, lines 324-327
ByValueType(d, value_type, field_value) ==
    IF /\ value_type # << >>
       /\ \/ contains(upper(value_type), << "C", "H", "E", "C", "K", "B", "O", "X" >>)
          \/ contains(upper(value_type), << "S", "E", "L", "E", "C", "T", "E", "D" >>)
    THEN Checkbox(client_lower(field_value) \in checked_words)
    ELSE d

\* Method 2, lines 330-335
ByW9Name(d, field_name_lower, field_value) ==
    IF AnyIn(w9_checkbox_fields, field_name_lower)
    THEN Checkbox(strip(field_value) # << >>)
    ELSE d

\* Method 3, lines 338-342
ByNameTerm(d, field_name_lower, field_value) ==
    IF AnyIn(checkbox_terms, field_name_lower)
    THEN Checkbox(client_lower(field_value) \in checked_words)
    ELSE d

\* mutant: the glyphs of the value decide only when no earlier method has
ByValueChars_first_wins(d, field_value) ==
    IF ~d.is_checkbox /\ AnyIn(checkbox_chars, field_value)
    THEN Checkbox(AnyIn(checked_chars, field_value))
    ELSE d

\* Method 4, lines 345-349
ByValueChars(d, field_value) ==
    IF AnyIn(checkbox_chars, field_value)
    THEN Checkbox(AnyIn(checked_chars, field_value))
    ELSE d

\* Method 5, lines 352-357
ByEmptyValue(d, field_name_lower, field_value) ==
    IF /\ ~d.is_checkbox
       /\ strip(field_value) = << >>
       /\ field_name_lower # << >>
       /\ AnyIn(label_patterns, field_name_lower)
    THEN Checkbox(FALSE)
    ELSE d

\* lines 319-357
Detect(field_name, field_value, value_type) ==
    ByEmptyValue(
        ByValueChars(
            ByNameTerm(
                ByW9Name(
                    ByValueType(NotCheckbox, value_type, field_value),
                    strip(client_lower(field_name)), field_value),
                strip(client_lower(field_name)), field_value),
            field_value),
        strip(client_lower(field_name)), field_value)

NoBBox == [isNone |-> TRUE, left |-> 0, top |-> 0, right |-> 0, bottom |-> 0]

\* lines 360-369, for a bounding_poly of at least three vertices
CornerBBox(poly) ==
    IF ~poly.has \/ poly.vertices = << >> THEN NoBBox
    ELSE [isNone |-> FALSE,
          left |-> poly.vertices[1].x, top |-> poly.vertices[1].y,
          right |-> poly.vertices[3].x, bottom |-> poly.vertices[3].y]

\* lines 371-380
ClientFormField(field_name, field_value, value_type, d, bbox, page_number) ==
    [name |-> field_name,
     value |-> IF ~d.is_checkbox THEN TextValue(field_value) ELSE BoolValue(d.is_checked),
     type |-> d.field_type,
     value_type |-> value_type,
     is_checkbox |-> d.is_checkbox,
     is_checked |-> [isNone |-> ~d.is_checkbox, bool |-> d.is_checkbox /\ d.is_checked],
     bbox |-> bbox,
     page_number |-> page_number]

\* one iteration of the loop over page.form_fields, lines 309-392:
\* [raised, emitted, candidate]; an exception skips the field only
ClientProcessFormField(field, text, page_number) ==
    IF ~field.hasFieldName
    THEN [raised |-> TRUE, emitted |-> FALSE, candidate |-> <<>>]  \* AttributeError, line 361
    ELSE IF /\ field.field_name.poly.has
            /\ field.field_name.poly.vertices # << >>
            /\ Len(field.field_name.poly.vertices) < 3
    THEN [raised |-> TRUE, emitted |-> FALSE, candidate |-> <<>>]  \* IndexError, line 367
    ELSE [raised |-> FALSE, emitted |-> TRUE,
          candidate |->
              LET field_name == client_get_text_from_layout(field.field_name.layout, text)
                  field_value == IF field.hasFieldValue
                                 THEN client_get_text_from_layout(field.field_value.layout, text)
                                 ELSE << >>
                  value_type == IF field.hasFieldValue
                                THEN str(field.field_value.value_type)
                                ELSE << >>
              IN ClientFormField(field_name, field_value, value_type,
                                 Detect(field_name, field_value, value_type),
                                 CornerBBox(field.field_name.poly), page_number)]

\* lines 388-392: append the field, or log the exception and continue
Skip(form_fields, step) ==
    IF step.emitted THEN Append(form_fields, step.candidate) ELSE form_fields

\* lines 308-392
RECURSIVE ClientFormFieldLoop(_, _, _, _)
ClientFormFieldLoop(page, i, form_fields, text) ==
    IF i > Len(page.form_fields) THEN form_fields
    ELSE ClientFormFieldLoop(
             page, i + 1,
             Skip(form_fields,
                  ClientProcessFormField(
                      page.form_fields[i], text,
                      IF page.hasPageNumber THEN page.page_number ELSE 1)),
             text)

\* lines 289-397
client_extract_form_fields(page, text) ==
    IF ~page.hasFormFields THEN <<>>
    ELSE ClientFormFieldLoop(page, 1, <<>>, text)

(***************************************************************************)
(* DocumentModel._extract_document_data                                    *)
(* A document is [isNone, pagesKind, pages, hasText, text]; pagesKind is   *)
(* "absent" (no pages attribute), "list", or "scalar" (a truthy value that *)
(* is not iterable: iterating it raises TypeError).  An id f"field_{n}" is *)
(* [prefix, n].  The explored documents carry no mime_type attribute, so   *)
(* the getattr default is the value.                                       *)
(***************************************************************************)
Label_truthy(label) == label.kind = "placeholder" \/ label.text # <<>>

FormFieldData(field, n, page_number) ==
    [id |-> [prefix |-> "field", n |-> n],
     type |-> field.type,
     name |-> TextLabel(field.name),
     value |-> field.value,
     bbox |-> field.bbox,
     page |-> page_number]

CheckboxFieldData(checkbox, n, page_number) ==
    [id |-> [prefix |-> "checkbox", n |-> n],
     type |-> "checkbox",
     name |-> checkbox.label,
     value |-> BoolValue(checkbox.is_checked),
     bbox |-> checkbox.normalized_bounding_box,
     page |-> page_number]

\* append a field to the page and to the document
AddField(acc, field_data) ==
    [page_fields |-> Append(acc.page_fields, field_data),
     all_fields |-> Append(acc.all_fields, field_data)]

\* lines 139-149: append the form fields; acc = [page_fields, all_fields]
RECURSIVE MergeFormFields(_, _, _, _)
MergeFormFields(form_fields, i, acc, page_number) ==
    IF i > Len(form_fields) THEN acc
    ELSE MergeFormFields(form_fields, i + 1,
                         AddField(acc, FormFieldData(form_fields[i], Len(acc.all_fields),
                                                     page_number)),
                         page_number)

\* mutant: the checkbox ids are numbered within the page
RECURSIVE MergeCheckboxes_perpage(_, _, _, _)
MergeCheckboxes_perpage(checkboxes, i, acc, page_number) ==
    IF i > Len(checkboxes) THEN acc
    ELSE MergeCheckboxes_perpage(checkboxes, i + 1,
                                 IF Label_truthy(checkboxes[i].label)
                                 THEN AddField(acc, CheckboxFieldData(checkboxes[i],
                                                                      Len(acc.page_fields),
                                                                      page_number))
                                 ELSE acc,
                                 page_number)

\* lines 151-163: append the symbol checkboxes that have a label
RECURSIVE MergeCheckboxes(_, _, _, _)
MergeCheckboxes(checkboxes, i, acc, page_number) ==
    IF i > Len(checkboxes) THEN acc
    ELSE MergeCheckboxes(checkboxes, i + 1,
                         IF Label_truthy(checkboxes[i].label)
                         THEN AddField(acc, CheckboxFieldData(checkboxes[i],
                                                              Len(acc.all_fields),
                                                              page_number))
                         ELSE acc,
                         page_number)

NoDimension == [width |-> 0, height |-> 0, unit |-> ""]

\* lines 131-136 and 165-166: the page data, given its merged fields
AddPage(acc, page, page_number, merged) ==
    [pages |-> Append(acc.pages,
                      [page_number |-> page_number,
                       dimensions |-> IF page.hasDimension THEN page.dimension
                                      ELSE NoDimension,
                       fields |-> merged.page_fields]),
     all_fields |-> merged.all_fields]

\* mutant: the symbol checkboxes are appended before the form fields
MergePage_checkboxes_first(acc, page, page_number, text) ==
    AddPage(acc, page, page_number,
            MergeFormFields(extract_form_fields(page, text), 1,
                            MergeCheckboxes(extract_checkboxes(page, text), 1,
                                            [page_fields |-> <<>>,
                                             all_fields |-> acc.all_fields],
                                            page_number),
                            page_number))

\* lines 118-166: one page
MergePage(acc, page, page_number, text) ==
    AddPage(acc, page, page_number,
            MergeCheckboxes(extract_checkboxes(page, text), 1,
                            MergeFormFields(extract_form_fields(page, text), 1,
                                            [page_fields |-> <<>>,
                                             all_fields |-> acc.all_fields],
                                            page_number),
                            page_number))

\* lines 117-166: the loop over document.pages; acc = [pages, all_fields]
RECURSIVE PageLoop(_, _, _, _)
PageLoop(pages, page_idx, acc, text) ==
    IF page_idx >= Len(pages) THEN acc
    ELSE PageLoop(pages, page_idx + 1,
                  MergePage(acc, pages[page_idx + 1],
                            IF pages[page_idx + 1].hasPageNumber
                            THEN pages[page_idx + 1].page_number
                            ELSE page_idx + 1,
                            text),
                  text)

\* lines 106-111 and 169: the document data, given the merged pages
DocumentData(text, merged) ==
    [text |-> text,
     mime_type |-> "application/pdf",
     pages |-> merged.pages,
     fields |-> merged.all_fields]

\* [raised, data]
extract_document_data(document) ==
    IF document.pagesKind = "scalar"
    THEN [raised |-> TRUE, data |-> <<>>]     \* iterating the pages: TypeError
    ELSE [raised |-> FALSE,
          data |-> DocumentData(
                       IF document.hasText THEN document.text ELSE <<>>,
                       IF document.pagesKind = "list"
                       THEN PageLoop(document.pages, 0,
                                     [pages |-> <<>>, all_fields |-> <<>>],
                                     IF document.hasText THEN document.text ELSE <<>>)
                       ELSE [pages |-> <<>>, all_fields |-> <<>>])]

(***************************************************************************)
(* validate_document_structure: [raised, is_valid, error_message,          *)
(* confidence].  A page carries hasDimension, hasRotation and rotation.    *)
(***************************************************************************)
\* mutant: a page without dimension is not tested for rotation (elif)
RECURSIVE ValidatePages_elif(_, _, _)
ValidatePages_elif(pages, i, confidence) ==
    IF i > Len(pages) THEN confidence
    ELSE LET c2 == IF ~pages[i].hasDimension THEN TimesTenths(confidence, 9)
                   ELSE IF pages[i].hasRotation /\ pages[i].rotation # 0
                   THEN TimesTenths(confidence, 8) ELSE confidence
         IN ValidatePages_elif(pages, i + 1, c2)

\* lines 42-51: the loop over the pages
RECURSIVE ValidatePages(_, _, _)
ValidatePages(pages, i, confidence) ==
    IF i > Len(pages) THEN confidence
    ELSE LET c1 == IF ~pages[i].hasDimension THEN TimesTenths(confidence, 9)
                   ELSE confidence
             c2 == IF pages[i].hasRotation /\ pages[i].rotation # 0
                   THEN TimesTenths(c1, 8) ELSE c1
         IN ValidatePages(pages, i + 1, c2)

Verdict(is_valid, error_message, confidence) ==
    [raised |-> FALSE, is_valid |-> is_valid, error_message |-> error_message,
     confidence |-> confidence]

\* mutant: the text is tested before the pages and the "no pages" verdict
\* returns the running confidence
validate_document_structure_running(document) ==
    LET c0 == IF ~document.hasText \/ document.text = <<>>
              THEN TimesTenths(Frac(1, 1), 7) ELSE Frac(1, 1)
        confidence == ValidatePages(document.pages, 1, c0)
    IN IF document.isNone
       THEN Verdict(FALSE, "Document is None", Frac(0, 1))
       ELSE IF document.pagesKind = "absent"
               \/ (document.pagesKind = "list" /\ document.pages = <<>>)
       THEN Verdict(FALSE, "Document has no pages", c0)
       ELSE IF document.pagesKind = "scalar"
       THEN [raised |-> TRUE, is_valid |-> FALSE, error_message |-> "",
             confidence |-> Frac(0, 1)]
       ELSE IF BelowSixTenths(confidence)
       THEN Verdict(FALSE, "Document structure is too poor for reliable processing",
                    confidence)
       ELSE Verdict(TRUE, "Document structure is valid", confidence)

validate_document_structure(document) ==
    LET c0 == IF ~document.hasText \/ document.text = <<>>
              THEN TimesTenths(Frac(1, 1), 7) ELSE Frac(1, 1)
        confidence == ValidatePages(document.pages, 1, c0)
    IN IF document.isNone
       THEN Verdict(FALSE, "Document is None", Frac(0, 1))
       ELSE IF document.pagesKind = "absent"
               \/ (document.pagesKind = "list" /\ document.pages = <<>>)
       THEN Verdict(FALSE, "Document has no pages", Frac(0, 1))
       ELSE IF document.pagesKind = "scalar"
       THEN [raised |-> TRUE, is_valid |-> FALSE, error_message |-> "",
             confidence |-> Frac(0, 1)]
       ELSE IF BelowSixTenths(confidence)
       THEN Verdict(FALSE, "Document structure is too poor for reliable processing",
                    confidence)
       ELSE Verdict(TRUE, "Document structure is valid", confidence)

(***************************************************************************)
(* Explored inputs.                                                        *)
(***************************************************************************)
V(x, y) == [x |-> x, y |-> y]
Rect(l, t, w, h) == << V(l, t), V(l + w, t), V(l + w, t + h), V(l, t + h) >>
Poly(vertices) == [has |-> TRUE, numeric |-> TRUE, vertices |-> vertices]
NoPoly == [has |-> FALSE, numeric |-> TRUE, vertices |-> <<>>]
\* a polygon one of whose coordinates is None
NonNumericPoly == [has |-> TRUE, numeric |-> FALSE, vertices |-> Rect(2, 2, 2, 2)]

Seg(s, e) == [start_index |-> s, end_index |-> e]
Layout(segments) == [present |-> TRUE, segments |-> segments]
NoLayout == [present |-> FALSE, segments |-> <<>>]

\* "ab yes"
SampleText == << "a", "b", " ", "y", "e", "s" >>

Symbol(type, state, poly) ==
    [hasType |-> TRUE, symbol_type |-> type, state |-> state, poly |-> poly]
UntypedSymbol ==
    [hasType |-> FALSE, symbol_type |-> "", state |-> "None", poly |-> NoPoly]

Paragraph(vertices, layout) ==
    [polyKind |-> "poly", vertices |-> vertices, layout |-> layout]
\* no bounding_poly attribute: skipped by the label search
UnplacedParagraph == [polyKind |-> "absent", vertices |-> <<>>, layout |-> Layout(<< Seg(0, 2) >>)]
\* bounding_poly without normalized_vertices (None): AttributeError at line 433
MalformedParagraph == [polyKind |-> "malformed", vertices |-> <<>>, layout |-> NoLayout]

FormField(nameLayout, namePoly, valueLayout, value_type) ==
    [hasFieldName |-> TRUE, field_name |-> [layout |-> nameLayout, poly |-> namePoly],
     hasFieldValue |-> TRUE,
     field_value |-> [layout |-> valueLayout, value_type |-> value_type]]

Page(hasDimension, hasRotation, rotation, content) ==
    [hasDimension |-> hasDimension,
     dimension |-> [width |-> 612, height |-> 792, unit |-> "points"],
     hasRotation |-> hasRotation,
     rotation |-> rotation,
     hasPageNumber |-> content.hasPageNumber,
     page_number |-> content.page_number,
     hasFormFields |-> content.hasFormFields,
     form_fields |-> content.form_fields,
     hasSymbols |-> content.hasSymbols,
     detected_symbols |-> content.detected_symbols,
     hasParagraphs |-> content.hasParagraphs,
     paragraphs |-> content.paragraphs]

EmptyContent ==
    [hasPageNumber |-> FALSE, page_number |-> 0,
     hasFormFields |-> FALSE, form_fields |-> <<>>,
     hasSymbols |-> FALSE, detected_symbols |-> <<>>,
     hasParagraphs |-> FALSE, paragraphs |-> <<>>]

\* a text field, a boolean field, a checked checkbox with its label on the right
FormContent ==
    [hasPageNumber |-> TRUE, page_number |-> 7,
     hasFormFields |-> TRUE,
     form_fields |-> << FormField(Layout(<< Seg(0, 2) >>), Poly(Rect(1, 1, 4, 1)),
                                  Layout(<< Seg(3, 6) >>), ""),
                        FormField(Layout(<< Seg(0, 2) >>), NoPoly,
                                  Layout(<< Seg(3, 6) >>), "boolean") >>,
     hasSymbols |-> TRUE,
     detected_symbols |-> << Symbol("checkbox", "checked", Poly(Rect(2, 2, 2, 2))) >>,
     hasParagraphs |-> TRUE,
     paragraphs |-> << Paragraph(Rect(4, 2, 2, 2), Layout(<< Seg(0, 2) >>)) >>]

PageContents == {EmptyContent, FormContent}

PageInputs ==
    { Page(d, r[1], r[2], c) :
        d \in BOOLEAN, r \in { <<FALSE, 0>>, <<TRUE, 0>>, <<TRUE, 90>> },
        c \in PageContents }

RECURSIVE SeqsUpTo(_, _)
SeqsUpTo(S, n) ==
    IF n = 0 THEN { <<>> }
    ELSE LET shorter == SeqsUpTo(S, n - 1)
         IN shorter \cup { Append(q, e) : q \in { t \in shorter : Len(t) = n - 1 }, e \in S }

TextInputs == { <<FALSE, <<>> >>, <<TRUE, <<>> >>, <<TRUE, SampleText>> }

NoneDocument ==
    [isNone |-> TRUE, pagesKind |-> "absent", pages |-> <<>>,
     hasText |-> FALSE, text |-> <<>>]

Document(pagesKind, pages, t) ==
    [isNone |-> FALSE, pagesKind |-> pagesKind, pages |-> pages,
     hasText |-> t[1], text |-> t[2]]

Documents ==
    {NoneDocument}
    \cup { Document("list", ps, t) : ps \in SeqsUpTo(PageInputs, MaxPages), t \in TextInputs }
    \cup { Document(k, <<>>, t) : k \in {"absent", "scalar"}, t \in TextInputs }

(***************************************************************************)
(* State.                                                                  *)
(***************************************************************************)
VARIABLES
    pc,           \* position in process_file / in the extraction call
    file,         \* what open(file_path, "rb") meets
    document,     \* the value returned by doc_ai_manager.process_document
    validation,   \* the tuple returned by validate_document_structure
    result,       \* the dict returned by process_file
    outcome,      \* "none", "returned" or "raised" (to the caller)
    exc,          \* the exception in flight or raised ("" when none)
    page,         \* the page given to _extract_checkboxes
    text,         \* the text given to _extract_checkboxes
    checkboxes,   \* the list returned by _extract_checkboxes
    fields_data,       \* the fields given to visualize_extracted_fields
    processed_fields,  \* its list of field copies
    page_images,       \* the page images convert_from_path returned
    page_idx,          \* the number of page images already handled
    calls              \* the number of calls of visualize_extracted_fields

visualization_vars == << fields_data, processed_fields, page_images, page_idx, calls >>

vars == << pc, file, document, validation, result, outcome, exc, page, text, checkboxes,
           visualization_vars >>

\* before any call of visualize_extracted_fields
NoVisualization ==
    /\ fields_data = <<>>
    /\ processed_fields = <<>>
    /\ page_images = <<>>
    /\ page_idx = 0
    /\ calls = 0

NoResult == [none |-> TRUE]
NoValidation == Verdict(FALSE, "", Frac(0, 1))
NoPage == Page(TRUE, FALSE, 0, EmptyContent)

(***************************************************************************)
(* DocumentModel.process_file                                              *)
(***************************************************************************)
Init ==
    /\ pc = "open"
    /\ file \in {"readable", "missing", "unreadable"}
    /\ document = NoneDocument
    /\ validation = NoValidation
    /\ result = NoResult
    /\ outcome = "none"
    /\ exc = ""
    /\ page = NoPage
    /\ text = <<>>
    /\ checkboxes = <<>>
    /\ NoVisualization

\* lines 44-46: open and read the file
OpenFile ==
    /\ pc = "open"
    /\ IF file = "readable" THEN pc' = "process" /\ exc' = exc
       ELSE /\ pc' = "except"
            /\ exc' = IF file = "missing" THEN "FileNotFoundError" ELSE "PermissionError"
    /\ UNCHANGED << file, document, validation, result, outcome, page, text, checkboxes,
                    visualization_vars >>

\* line 49: the manager returns a document (None in test mode)
ProcessDocument ==
    /\ pc = "process"
    /\ \E d \in Documents : document' = d
    /\ pc' = "validate"
    /\ UNCHANGED << file, validation, result, outcome, exc, page, text, checkboxes,
                    visualization_vars >>

\* line 49: the manager raises (document_ai_core.py lines 115-117)
ProcessDocumentRaises ==
    /\ pc = "process"
    /\ pc' = "except"
    /\ exc' = "Exception"
    /\ UNCHANGED << file, document, validation, result, outcome, page, text, checkboxes,
                    visualization_vars >>

\* lines 52-60
Validate ==
    /\ pc = "validate"
    /\ LET v == validate_document_structure(document)
       IN IF v.raised
          THEN /\ pc' = "except"
               /\ exc' = "TypeError"
               /\ UNCHANGED << validation, result >>
          ELSE /\ pc' = "validated"
               /\ validation' = v
               /\ result' = [document_validation |->
                                [is_valid |-> v.is_valid,
                                 error_message |-> v.error_message,
                                 confidence |-> v.confidence]]
               /\ exc' = exc
    /\ UNCHANGED << file, document, outcome, page, text, checkboxes,
                    visualization_vars >>

\* mutant: returns the validation alone, without the basic information
ReturnInvalid_bare ==
    /\ pc = "validated"
    /\ ~validation.is_valid
    /\ result' = [document_validation |-> result.document_validation]
    /\ outcome' = "returned"
    /\ pc' = "done"
    /\ UNCHANGED << file, document, validation, exc, page, text, checkboxes,
                    visualization_vars >>

\* lines 62-69
ReturnInvalid ==
    /\ pc = "validated"
    /\ ~validation.is_valid
    /\ result' = [document_validation |-> result.document_validation,
                  text |-> IF ~document.isNone /\ document.hasText THEN document.text
                           ELSE <<>>,
                  pages |-> <<>>,
                  fields |-> <<>>,
                  checkboxes |-> <<>>]
    /\ outcome' = "returned"
    /\ pc' = "done"
    /\ UNCHANGED << file, document, validation, exc, page, text, checkboxes,
                    visualization_vars >>

\* lines 72-75 and the handler's entry at line 80, given the extraction
Extracted(extracted) ==
    /\ IF extracted.raised
       THEN /\ pc' = "except"
            /\ exc' = "TypeError"
            /\ UNCHANGED << result, outcome >>
       ELSE /\ result' = extracted.data @@ result
            /\ outcome' = "returned"
            /\ pc' = "done"
            /\ exc' = exc
    /\ UNCHANGED << file, document, validation, page, text, checkboxes,
                    visualization_vars >>

\* mutant: extraction runs whatever the verdict is
ExtractAndReturn_always ==
    /\ pc = "validated"
    /\ Extracted(extract_document_data(document))

\* lines 71-75
ExtractAndReturn ==
    /\ pc = "validated"
    /\ validation.is_valid
    /\ Extracted(extract_document_data(document))

\* lines 77-79
ExceptFileNotFound ==
    /\ pc = "except"
    /\ exc = "FileNotFoundError"
    /\ outcome' = "raised"
    /\ pc' = "done"
    /\ UNCHANGED << file, document, validation, result, exc, page, text, checkboxes,
                    visualization_vars >>

\* mutant: the generic handler logs and re-raises
ExceptException_reraise ==
    /\ pc = "except"
    /\ exc # "FileNotFoundError"
    /\ outcome' = "raised"
    /\ pc' = "done"
    /\ UNCHANGED << file, document, validation, result, exc, page, text, checkboxes,
                    visualization_vars >>

\* lines 80-89
ExceptException ==
    /\ pc = "except"
    /\ exc # "FileNotFoundError"
    /\ result' = [error |-> exc,
                  document_validation |->
                      [is_valid |-> FALSE,
                       error_message |-> "Processing error: " \o exc,
                       confidence |-> Frac(0, 1)]]
    /\ outcome' = "returned"
    /\ pc' = "done"
    /\ UNCHANGED << file, document, validation, exc, page, text, checkboxes,
                    visualization_vars >>

Next ==
    \/ OpenFile
    \/ ProcessDocument
    \/ ProcessDocumentRaises
    \/ Validate
    \/ ReturnInvalid
    \/ ExtractAndReturn
    \/ ExceptFileNotFound
    \/ ExceptException

Spec == Init /\ [][Next]_vars

(***************************************************************************)
(* DocumentModel._extract_checkboxes applied to one page (specification    *)
(* SpecCheckboxes).                                                        *)
(***************************************************************************)
Square == Rect(2, 2, 2, 2)
Diamond == << V(4, 2), V(6, 4), V(4, 6), V(2, 4) >>
Skewed == << V(2, 2), V(10, 3), V(11, 6), V(3, 5) >>
Triangle == << V(2, 2), V(4, 2), V(3, 4) >>
\* four distinct x values on two distinct y values
Parallelogram == << V(2, 2), V(4, 2), V(5, 4), V(3, 4) >>

SymbolPolys ==
    { Poly(Square), Poly(Diamond), Poly(Skewed), Poly(Triangle),
      Poly(Rect(2, 2, 7, 10)), Poly(Rect(2, 2, 6, 10)),
      Poly(Rect(2, 2, 13, 10)), Poly(Rect(2, 2, 14, 10)),
      Poly(Rect(2, 2, 0, 2)), Poly(Rect(2, 2, 2, 0)),
      NoPoly, NonNumericPoly }

SymbolInputs ==
    { Symbol("checkbox", s, p) :
        s \in {"checked", "unchecked", "None"}, p \in {Poly(Square), Poly(Diamond)} }
    \cup { Symbol(t, "checked", Poly(Square)) : t \in {"square", "box", "tick_box"} }
    \cup { Symbol("checkbox", "checked", NoPoly),
           Symbol("checkbox", "checked", Poly(Skewed)),
           Symbol("checkbox", "checked", Poly(Parallelogram)),
           Symbol("tick_box", "unchecked", NonNumericPoly) }
    \cup { Symbol("unknown", "None", p) : p \in SymbolPolys }
    \cup { Symbol("unknown", "checked", Poly(Square)),
           Symbol("unknown", "checked", Poly(Diamond)),
           Symbol("other", "checked", Poly(Square)),
           UntypedSymbol }

ParagraphInputs ==
    { Paragraph(Rect(4, 2, 2, 2), Layout(<< Seg(0, 2) >>)),      \* right, at 0.1
      Paragraph(Rect(3, 3, 1, 1), Layout(<< Seg(3, 6) >>)),      \* below right, adjacent
      Paragraph(Rect(2, 7, 2, 2), Layout(<< Seg(0, 2) >>)),      \* below, at 0.25
      Paragraph(Rect(4, 2, 2, 2), Layout(<< Seg(2, 3) >>)),      \* right, blank text
      MalformedParagraph }

SymbolsPage(symbols, paragraphs) ==
    Page(TRUE, FALSE, 0,
         [hasPageNumber |-> TRUE, page_number |-> 1,
          hasFormFields |-> FALSE, form_fields |-> <<>>,
          hasSymbols |-> symbols[1], detected_symbols |-> symbols[2],
          hasParagraphs |-> paragraphs[1], paragraphs |-> paragraphs[2]])

CheckboxPages ==
    { SymbolsPage(s, p) :
        s \in { <<FALSE, <<>> >> }
              \cup { <<TRUE, q>> : q \in SeqsUpTo(SymbolInputs, MaxSymbols) },
        p \in { <<FALSE, <<>> >> }
              \cup { <<TRUE, q>> : q \in SeqsUpTo(ParagraphInputs, MaxParagraphs) } }

InitCheckboxes ==
    /\ pc = "page"
    /\ page \in CheckboxPages
    /\ text = SampleText
    /\ checkboxes = <<>>
    /\ NoVisualization
    /\ file = "readable"
    /\ document = NoneDocument
    /\ validation = NoValidation
    /\ result = NoResult
    /\ outcome = "none"
    /\ exc = ""

\* lines 246-346
ExtractCheckboxes ==
    /\ pc = "page"
    /\ checkboxes' = extract_checkboxes(page, text)
    /\ pc' = "extracted"
    /\ UNCHANGED << file, document, validation, result, outcome, exc, page, text,
                    visualization_vars >>

NextCheckboxes == ExtractCheckboxes

SpecCheckboxes == InitCheckboxes /\ [][NextCheckboxes]_vars

(***************************************************************************)
(* Properties of validate_document_structure (specification Spec).         *)
(***************************************************************************)
HasPages(d) == ~d.isNone /\ d.pagesKind = "list" /\ d.pages # <<>>
NoText(d) == ~d.hasText \/ d.text = <<>>
Validated == pc = "validated"

RECURSIVE Pow(_, _)
Pow(b, k) == IF k = 0 THEN 1 ELSE b * Pow(b, k - 1)

PagesWithoutDimension(d) == { i \in 1..Len(d.pages) : ~d.pages[i].hasDimension }
RotatedPages(d) == { i \in 1..Len(d.pages) : d.pages[i].hasRotation /\ d.pages[i].rotation # 0 }

\* C1: an absent document gives (false, "Document is None", 0.0); a document
\* whose pages attribute is missing or empty gives (false, "Document has no
\* pages", 0.0) whatever its text is; the confidence is the literal 0.0, no
\* penalty factor is applied.
C1_AbsentOrNoPages ==
    Validated =>
        /\ document.isNone =>
               validation = Verdict(FALSE, "Document is None", Frac(0, 1))
        /\ (~document.isNone
            /\ (document.pagesKind = "absent"
                \/ (document.pagesKind = "list" /\ document.pages = <<>>))) =>
               validation = Verdict(FALSE, "Document has no pages", Frac(0, 1))

C1_Witness ==
    /\ Validated
    /\ ~document.isNone
    /\ document.pagesKind = "list"
    /\ document.pages = <<>>
    /\ NoText(document)
    /\ validation.error_message = "Document has no pages"

C3_ConfidenceIsProduct ==
    (Validated /\ HasPages(document)) =>
        LET t == IF NoText(document) THEN 1 ELSE 0
            m == Cardinality(PagesWithoutDimension(document))
            r == Cardinality(RotatedPages(document))
        IN validation.confidence = Frac(Pow(7, t) * Pow(9, m) * Pow(8, r), Pow(10, t + m + r))

C3_Witness ==
    /\ Validated
    /\ HasPages(document)
    /\ NoText(document)
    /\ Cardinality(PagesWithoutDimension(document)) = 2
    /\ Cardinality(RotatedPages(document)) = 1
    /\ validation.confidence = Frac(7 * 81 * 8, 10000)

\* C4: a document whose only defects are empty text and exactly one rotated
\* page is valid with confidence 0.56; empty text alone gives (true, 0.7) and
\* one rotated page alone gives (true, 0.8).
C4_EmptyTextAndRotatedIsValid ==
    (/\ Validated
     /\ HasPages(document)
     /\ PagesWithoutDimension(document) = {}
     /\ Cardinality(RotatedPages(document)) <= 1) =>
        LET r == Cardinality(RotatedPages(document))
        IN /\ (NoText(document) /\ r = 1) =>
                  (validation.is_valid /\ validation.confidence = Frac(56, 100))
           /\ (NoText(document) /\ r = 0) =>
                  (validation.is_valid /\ validation.confidence = Frac(7, 10))
           /\ (~NoText(document) /\ r = 1) =>
                  (validation.is_valid /\ validation.confidence = Frac(8, 10))

(***************************************************************************)
(* Properties of process_file (specification Spec).                        *)
(***************************************************************************)
Done == pc = "done"
ValidationFailed == validation # NoValidation /\ ~validation.is_valid
TooPoor ==
    validation.error_message = "Document structure is too poor for reliable processing"
DocumentText == IF ~document.isNone /\ document.hasText THEN document.text ELSE <<>>

\* C5: whenever validation returns is_valid = false, process_file returns
\* (does not raise) a result with document_validation {is_valid,
\* error_message, confidence}, the document's text ("" when it has none) and
\* empty pages, fields and checkboxes.
C5_InvalidStillReturnsResult ==
    (Done /\ ValidationFailed) =>
        /\ outcome = "returned"
        /\ {"document_validation", "text", "pages", "fields", "checkboxes"}
               \subseteq DOMAIN result
        /\ result.document_validation =
               [is_valid |-> FALSE,
                error_message |-> validation.error_message,
                confidence |-> validation.confidence]
        /\ result.text = DocumentText
        /\ result.pages = <<>>
        /\ result.fields = <<>>
        /\ result.checkboxes = <<>>

C5_Witness ==
    /\ Done
    /\ ValidationFailed
    /\ validation.error_message = "Document has no pages"
    /\ result.text = SampleText

C8_ManagerErrorPropagates ==
    (Done /\ exc = "Exception") => outcome = "raised"

(***************************************************************************)
(* Properties of _extract_checkboxes (specification SpecCheckboxes).       *)
(***************************************************************************)
CheckboxesExtracted == pc = "extracted"

\* the bounding width and height of a polygon with numeric coordinates
BoundingWidth(vertices) == MaxOf(XCoords(vertices)) - MinOf(XCoords(vertices))
BoundingHeight(vertices) == MaxOf(YCoords(vertices)) - MinOf(YCoords(vertices))

\* the symbols that C9 says give a candidate
StandardType(s) == s.hasType /\ s.symbol_type \in {"checkbox", "square", "box", "tick_box"}
ShapeInferred(s) ==
    /\ s.hasType
    /\ s.symbol_type = "unknown"
    /\ s.poly.has
    /\ s.poly.numeric
    /\ Len(s.poly.vertices) = 4
    /\ BoundingHeight(s.poly.vertices) # 0
    /\ 7 * BoundingHeight(s.poly.vertices) <= 10 * BoundingWidth(s.poly.vertices)
    /\ 10 * BoundingWidth(s.poly.vertices) <= 13 * BoundingHeight(s.poly.vertices)
Qualifies(s) == StandardType(s) \/ ShapeInferred(s)
QualifyingSymbols == SelectSeq(page.detected_symbols, Qualifies)

\* the qualifying symbols whose own processing raises no exception (such a
\* symbol is skipped by design)
QualifiesAndCompletes(s) == Qualifies(s) /\ ~ProcessSymbol(page, s, text).raised
EmittingSymbols == SelectSeq(page.detected_symbols, QualifiesAndCompletes)

\* C9: a candidate is emitted for a symbol exactly when its type is checkbox,
\* square, box or tick_box (type preserved) or its type is unknown and its
\* polygon has 4 vertices with a width/height ratio in [0.7, 1.3] (relabelled
\* inferred_checkbox): the candidates are, in order, those of the qualifying
\* symbols of the page (a symbol whose own processing raises set aside).
C9_CandidateIffQualifies ==
    (CheckboxesExtracted /\ page.hasSymbols) =>
        /\ Len(checkboxes) = Len(EmittingSymbols)
        /\ \A i \in 1..Len(checkboxes) :
               checkboxes[i].symbol_type =
                   IF StandardType(EmittingSymbols[i])
                   THEN EmittingSymbols[i].symbol_type
                   ELSE "inferred_checkbox"

\* C10: every emitted candidate has confidence_score =
\* round(base * s * r * label_confidence, 2), base 1.0 (standard type) or 0.7
\* (inferred), s 0.8 when the state is neither checked nor unchecked, r 0.9
\* when the polygon is rotated, label_confidence as returned by the label
\* search; is_checked is true exactly when the state is checked.
C10_ConfidenceFormula ==
    CheckboxesExtracted =>
        \A i \in 1..Len(checkboxes) :
            LET symbol == QualifyingSymbols[i]
                base == IF StandardType(symbol) THEN 10 ELSE 7
                s == IF symbol.state \in {"checked", "unchecked"} THEN 10 ELSE 8
                r == IF symbol.poly.has /\ IsRotated(symbol.poly.vertices) THEN 9 ELSE 10
                l == find_checkbox_label(page, symbol, text).confidence
            IN /\ checkboxes[i].confidence_score = RoundHalfEven(base * s * r * l, 100)
               /\ checkboxes[i].is_checked <=> (symbol.state = "checked")

C10_Witness ==
    /\ CheckboxesExtracted
    /\ Len(checkboxes) = 2
    /\ checkboxes[1].symbol_type = "inferred_checkbox"
    /\ checkboxes[1].confidence_score = 13
    /\ checkboxes[1].is_checked
    /\ checkboxes[2].symbol_type = "checkbox"
    /\ ~checkboxes[2].is_checked

\* the symbols of the page whose own processing raises an exception
RaisingSymbols ==
    { i \in 1..Len(page.detected_symbols) :
        ProcessSymbol(page, page.detected_symbols[i], text).raised }

\* C11: when the processing of one detected symbol raises an exception, only
\* that symbol is skipped: the list returned for the page is, in order, the
\* candidates of every other qualifying symbol, those before and those after
\* the failing one.
C11_OnlyFailingSymbolSkipped ==
    (CheckboxesExtracted /\ page.hasSymbols /\ RaisingSymbols # {}) =>
        /\ Len(checkboxes) = Len(EmittingSymbols)
        /\ \A i \in 1..Len(EmittingSymbols) :
               checkboxes[i] = ProcessSymbol(page, EmittingSymbols[i], text).candidate

(***************************************************************************)
(* DocumentModel._extract_document_data applied to one document            *)
(* (specification SpecMerge).                                              *)
(***************************************************************************)
\* a standard checkbox and an inferred one
MergeSymbols ==
    { Symbol("checkbox", "checked", Poly(Square)),
      Symbol("unknown", "None", Poly(Square)) }

\* the last list ends with a symbol one of whose coordinates is None
MergeSymbolLists ==
    SeqsUpTo(MergeSymbols, MaxSymbols)
    \cup { << Symbol("checkbox", "checked", Poly(Square)),
              Symbol("tick_box", "unchecked", NonNumericPoly) >> }

\* no paragraphs; a paragraph on the right reading "ab"; one reading " "
MergeParagraphLists ==
    { <<FALSE, <<>> >>,
      <<TRUE, << Paragraph(Rect(4, 2, 2, 2), Layout(<< Seg(0, 2) >>)) >> >>,
      <<TRUE, << Paragraph(Rect(4, 2, 2, 2), Layout(<< Seg(2, 3) >>)) >> >> }

\* no form fields (and no page_number); a text field and a boolean field
MergeFormLists ==
    { <<FALSE, <<>> >>,
      <<TRUE, << FormField(Layout(<< Seg(0, 2) >>), Poly(Rect(1, 1, 4, 1)),
                           Layout(<< Seg(3, 6) >>), ""),
                 FormField(Layout(<< Seg(0, 2) >>), NoPoly,
                           Layout(<< Seg(3, 6) >>), "boolean") >> >> }

MergePages ==
    { Page(TRUE, FALSE, 0,
           [hasPageNumber |-> f[1], page_number |-> IF f[1] THEN 7 ELSE 0,
            hasFormFields |-> f[1], form_fields |-> f[2],
            hasSymbols |-> TRUE, detected_symbols |-> s,
            hasParagraphs |-> p[1], paragraphs |-> p[2]]) :
        f \in MergeFormLists, s \in MergeSymbolLists, p \in MergeParagraphLists }

MergeDocuments ==
    { Document("list", ps, <<TRUE, SampleText>>) : ps \in SeqsUpTo(MergePages, MaxPages) }
    \cup { Document(k, <<>>, <<TRUE, SampleText>>) : k \in {"absent", "scalar"} }

InitMerge ==
    /\ pc = "merge"
    /\ document \in MergeDocuments
    /\ result = NoResult
    /\ outcome = "none"
    /\ exc = ""
    /\ file = "readable"
    /\ validation = NoValidation
    /\ page = NoPage
    /\ text = <<>>
    /\ checkboxes = <<>>
    /\ NoVisualization

\* lines 101-177, given the extraction: return the data or log and re-raise
ReturnOrRaise(extracted) ==
    /\ IF extracted.raised
       THEN /\ exc' = "TypeError"
            /\ outcome' = "raised"
            /\ result' = result
       ELSE /\ result' = extracted.data
            /\ outcome' = "returned"
            /\ exc' = exc
    /\ pc' = "merged"
    /\ UNCHANGED << file, document, validation, page, text, checkboxes,
                    visualization_vars >>

ExtractDocumentData ==
    /\ pc = "merge"
    /\ ReturnOrRaise(extract_document_data(document))

NextMerge == ExtractDocumentData

SpecMerge == InitMerge /\ [][NextMerge]_vars

(***************************************************************************)
(* Properties of _extract_document_data (specification SpecMerge).         *)
(***************************************************************************)
Merged == pc = "merged" /\ outcome = "returned"

IsSymbolCheckbox(field) == field.id.prefix = "checkbox"
IsFormField(field) == field.id.prefix = "field"

\* the fields of page p of the output that come from detected symbols
SymbolCheckboxesOf(p) == SelectSeq(result.pages[p].fields, IsSymbolCheckbox)
FormFieldsOf(p) == SelectSeq(result.pages[p].fields, IsFormField)

\* the qualifying symbols of a page, when the processing of no symbol of the
\* page raises
NoSymbolRaises(pg) ==
    \A i \in 1..Len(pg.detected_symbols) :
        ~ProcessSymbol(pg, pg.detected_symbols[i], document.text).raised
QualifyingSymbolsOf(pg) == SelectSeq(pg.detected_symbols, Qualifies)

\* C12: every qualifying symbol whose processing raises no exception is a
\* checkbox field of the merged output, with a non-empty name (the resolved
\* text, or the placeholder when no text resolves): on a page none of whose
\* symbols raises, the symbol-derived checkbox fields are as many as the
\* qualifying symbols and all have a non-empty name.
C12_QualifyingSymbolNeverDropped ==
    (Merged /\ document.pagesKind = "list") =>
        \A p \in 1..Len(document.pages) :
            NoSymbolRaises(document.pages[p]) =>
                /\ Len(SymbolCheckboxesOf(p)) = Len(QualifyingSymbolsOf(document.pages[p]))
                /\ \A i \in 1..Len(SymbolCheckboxesOf(p)) :
                       Label_truthy(SymbolCheckboxesOf(p)[i].name)

(***************************************************************************)
(* DocumentModel._find_checkbox_label applied to the first symbol of one   *)
(* page (specification SpecLabel).  The symbol polygons are centred at     *)
(* (0.15, 0.15), except the triangle and the absent polygon.               *)
(***************************************************************************)
LabelSymbols ==
    { Symbol("checkbox", "checked", Poly(Square)),
      Symbol("checkbox", "checked", Poly(Triangle)),
      Symbol("checkbox", "checked", NoPoly),
      Symbol("checkbox", "checked", NonNumericPoly) }

LabelParagraphs ==
    { Paragraph(Rect(4, 2, 2, 2), Layout(<< Seg(0, 2) >>)),   \* right, raw 0.1
      Paragraph(Rect(3, 3, 2, 1), Layout(<< Seg(3, 6) >>)),   \* right and below, raw 0.056
      Paragraph(Rect(3, 3, 1, 1), Layout(<< Seg(3, 6) >>)),   \* right and below, raw 0.035
      Paragraph(Rect(7, 4, 1, 1), Layout(<< Seg(0, 2) >>)),   \* right, raw 0.237
      Paragraph(Rect(2, 7, 2, 2), Layout(<< Seg(3, 6) >>)),   \* below, raw 0.25
      Paragraph(Rect(0, 0, 2, 2), Layout(<< Seg(0, 2) >>)),   \* left and above, raw 0.141
      Paragraph(Rect(16, 16, 2, 2), Layout(<< Seg(0, 2) >>)), \* far away
      Paragraph(Rect(4, 2, 2, 2), Layout(<< Seg(2, 3) >>)),   \* right, raw 0.1, blank text
      Paragraph(Rect(5, 3, 3, 2), Layout(<< Seg(0, 2) >>)),   \* right, raw 0.182
      Paragraph(Rect(0, 3, 2, 2), Layout(<< Seg(3, 6) >>)),   \* left, raw 0.112
      UnplacedParagraph,
      MalformedParagraph }

LabelPages ==
    { Page(TRUE, FALSE, 0,
           [hasPageNumber |-> n, page_number |-> IF n THEN 3 ELSE 0,
            hasFormFields |-> FALSE, form_fields |-> <<>>,
            hasSymbols |-> TRUE, detected_symbols |-> << s >>,
            hasParagraphs |-> p[1], paragraphs |-> p[2]]) :
        n \in BOOLEAN, s \in LabelSymbols,
        p \in { <<FALSE, <<>> >> }
              \cup { <<TRUE, q>> : q \in SeqsUpTo(LabelParagraphs, MaxParagraphs) } }

InitLabel ==
    /\ pc = "symbol"
    /\ page \in LabelPages
    /\ text = SampleText
    /\ result = NoResult
    /\ outcome = "none"
    /\ exc = ""
    /\ file = "readable"
    /\ document = NoneDocument
    /\ validation = NoValidation
    /\ checkboxes = <<>>
    /\ NoVisualization

\* the tuple returned to the caller, or the exception that leaves the function
ReturnLabel(found) ==
    /\ IF found.raised
       THEN /\ exc' = "TypeError"
            /\ outcome' = "raised"
            /\ result' = result
       ELSE /\ result' = [label |-> found.label, confidence |-> found.confidence]
            /\ outcome' = "returned"
            /\ exc' = exc
    /\ pc' = "labelled"
    /\ UNCHANGED << file, document, validation, page, text, checkboxes,
                    visualization_vars >>

FindCheckboxLabel ==
    /\ pc = "symbol"
    /\ ReturnLabel(find_checkbox_label(page, page.detected_symbols[1], text))

NextLabel == FindCheckboxLabel

SpecLabel == InitLabel /\ [][NextLabel]_vars

(***************************************************************************)
(* Properties of _find_checkbox_label (specification SpecLabel).           *)
(***************************************************************************)
Labelled == pc = "labelled" /\ outcome = "returned"

SymbolCenter ==
    IF page.detected_symbols[1].poly.has
    THEN Centroid(page.detected_symbols[1].poly.vertices)
    ELSE [x |-> 0, y |-> 0]

\* the paragraphs of the page that have a polygon
PlacedParagraphs ==
    IF page.hasParagraphs
    THEN { i \in 1..Len(page.paragraphs) : page.paragraphs[i].polyKind = "poly" }
    ELSE {}

ParagraphCenter(i) == Centroid(page.paragraphs[i].vertices)
ParagraphText(i) == get_text_from_layout(page.paragraphs[i].layout, text)

\* the squared raw and weighted distances of paragraph i to the symbol
RawDistance(i) == DistSq(ParagraphCenter(i), SymbolCenter)
WeightedDistance(i) ==
    Weighted(RawDistance(i), ParagraphCenter(i).x > SymbolCenter.x,
             ParagraphCenter(i).y > SymbolCenter.y)

\* the weighted-closest paragraph and the raw-closest one (the first of equals)
Winner ==
    CHOOSE i \in PlacedParagraphs :
        \A j \in PlacedParagraphs :
            \/ WeightedDistance(i) < WeightedDistance(j)
            \/ WeightedDistance(i) = WeightedDistance(j) /\ i <= j
Nearest ==
    CHOOSE i \in PlacedParagraphs :
        \A j \in PlacedParagraphs :
            \/ RawDistance(i) < RawDistance(j)
            \/ RawDistance(i) = RawDistance(j) /\ i <= j

\* the tiers 1.0, 0.9, 0.8, 0.7 of a squared distance, in tenths
Tier(d) ==
    IF d <= Threshold(5) THEN 10
    ELSE IF d <= Threshold(10) THEN 9
    ELSE IF d <= Threshold(15) THEN 8
    ELSE 7

\* C13: the confidence returned for the winning (weighted-closest) paragraph
\* is tiered on its raw distance d: 1.0 if d <= 0.05, 0.9 if d <= 0.1, 0.8 if
\* d <= 0.15, 0.7 if d <= 0.2.
C13_ConfidenceFromRawDistance ==
    (Labelled /\ PlacedParagraphs # {} /\ RawDistance(Winner) <= Threshold(20)) =>
        result.confidence = Tier(RawDistance(Winner))

PageNumberOrZero == IF page.hasPageNumber THEN page.page_number ELSE 0

\* C14: the label is resolved in three steps: the text of the winning
\* paragraph with a tiered confidence (0.7 to 1.0) if its raw distance is
\* <= 0.2; otherwise the text of the raw-closest paragraph with confidence 0.5
\* if some paragraph has raw distance <= 0.3; otherwise, and always when the
\* page has no paragraphs, the placeholder "Checkbox at Page n, position
\* (cx, cy)" with confidence 0.2.
C14_ThreeStepResolution ==
    Labelled =>
        IF PlacedParagraphs # {} /\ RawDistance(Winner) <= Threshold(20)
        THEN /\ result.label = TextLabel(ParagraphText(Winner))
             /\ result.confidence \in 7..10
        ELSE IF PlacedParagraphs # {} /\ RawDistance(Nearest) <= Threshold(30)
        THEN /\ result.label = TextLabel(ParagraphText(Nearest))
             /\ result.confidence = 5
        ELSE /\ result.label = PlaceholderLabel(PageNumberOrZero, SymbolCenter)
             /\ result.confidence = 2

(***************************************************************************)
(* Properties of the merge (specification SpecMerge).                      *)
(***************************************************************************)
\* the form fields the extractor returns for page p of the document
ExtractedFormFields(p) == extract_form_fields(document.pages[p], document.text)
\* the candidates the detector returns for page p of the document
ExtractedCheckboxes(p) == extract_checkboxes(document.pages[p], document.text)

\* C15: after the merge, the ids of the document's fields are pairwise
\* distinct, and the field at zero-based position i of the document-level
\* list has id field_i if it comes from a form field and checkbox_i if it
\* comes from a detected symbol.
C15_IdsDistinctAndPositional ==
    (Merged /\ document.pagesKind = "list") =>
        /\ \A i, j \in 1..Len(result.fields) :
               i # j => result.fields[i].id # result.fields[j].id
        /\ \A i \in 1..Len(result.fields) : result.fields[i].id.n = i - 1
        /\ \A p \in 1..Len(result.pages) :
               \A k \in 1..Len(result.pages[p].fields) :
                   result.pages[p].fields[k].id.prefix =
                       IF k <= Len(ExtractedFormFields(p)) THEN "field" ELSE "checkbox"

C15_Witness ==
    /\ Merged
    /\ Len(result.pages) = 2
    /\ Len(result.fields) = 6
    /\ result.fields[3].id = [prefix |-> "checkbox", n |-> 2]
    /\ result.fields[4].id = [prefix |-> "field", n |-> 3]
    /\ result.fields[6].id = [prefix |-> "checkbox", n |-> 5]

\* the candidates of page p that the merge keeps (those with a label)
HasLabel(checkbox) == Label_truthy(checkbox.label)
LabelledCheckboxes(p) == SelectSeq(ExtractedCheckboxes(p), HasLabel)

\* the per-page field lists of the output, one after the other
RECURSIVE ConcatPageFields(_, _)
ConcatPageFields(pages, p) ==
    IF p > Len(pages) THEN <<>>
    ELSE pages[p].fields \o ConcatPageFields(pages, p + 1)

\* C16: each page's field list holds the page's form fields in the order the
\* extractor returned them, followed by the page's symbol-derived checkboxes
\* in detection order; the document-level list is the concatenation of the
\* per-page lists in page order; every field's page is its page's
\* page_number.
C16_PageOrderAndConcatenation ==
    (Merged /\ document.pagesKind = "list") =>
        /\ Len(result.pages) = Len(document.pages)
        /\ result.fields = ConcatPageFields(result.pages, 1)
        /\ \A p \in 1..Len(result.pages) :
               LET fields == result.pages[p].fields
                   nf == Len(ExtractedFormFields(p))
               IN /\ result.pages[p].page_number =
                         IF document.pages[p].hasPageNumber
                         THEN document.pages[p].page_number ELSE p
                  /\ Len(fields) = nf + Len(LabelledCheckboxes(p))
                  /\ \A k \in 1..Len(fields) :
                         /\ fields[k].page = result.pages[p].page_number
                         /\ IF k <= nf
                            THEN /\ fields[k].name = TextLabel(ExtractedFormFields(p)[k].name)
                                 /\ fields[k].value = ExtractedFormFields(p)[k].value
                                 /\ fields[k].type = ExtractedFormFields(p)[k].type
                                 /\ fields[k].bbox = ExtractedFormFields(p)[k].bbox
                            ELSE /\ fields[k].name = LabelledCheckboxes(p)[k - nf].label
                                 /\ fields[k].value =
                                        BoolValue(LabelledCheckboxes(p)[k - nf].is_checked)
                                 /\ fields[k].type = "checkbox"
                                 /\ fields[k].bbox =
                                        LabelledCheckboxes(p)[k - nf].normalized_bounding_box

C16_Witness ==
    /\ Merged
    /\ Len(result.pages) = 2
    /\ Len(result.pages[1].fields) = 4
    /\ result.pages[1].page_number = 7
    /\ result.pages[1].fields[2].id.prefix = "field"
    /\ result.pages[1].fields[3].id.prefix = "checkbox"
    /\ result.pages[1].fields[3].value.bool
    /\ ~result.pages[1].fields[4].value.bool
    /\ result.pages[2].page_number = 2
    /\ Len(result.pages[2].fields) = 1
    /\ result.pages[2].fields[1].page = 2
    /\ Len(result.fields) = 5

(***************************************************************************)
(* visualize_extracted_fields (visualization.py): the normalization of the  *)
(* fields' bounding boxes while the pages are rendered.                     *)
(* A coordinate is an exact rational [num, den] in lowest terms (den > 0);  *)
(* None is a value that is no number.  A bbox is [kind, dict, vertices]:    *)
(* kind "dict" carries a dict from key to coordinate, kind "list" a list of *)
(* vertices (the form the extractors produce), kind "None" is None.  A      *)
(* field is [id, page, hasBBox, bbox]; a page image is [width, height].     *)
(***************************************************************************)
MaxCalls == 2

RECURSIVE GCD(_, _)
GCD(a, b) == IF b = 0 THEN a ELSE GCD(b, a % b)

Rat(n, d) ==
    [num |-> n \div GCD(IF n < 0 THEN -n ELSE n, d),
     den |-> d \div GCD(IF n < 0 THEN -n ELSE n, d)]

None == [num |-> 0, den |-> 0]

\* v / k for a positive integer k
RatDiv(v, k) == Rat(v.num, v.den * k)
RatAdd(a, b) ==
    Rat(a.num * (b.den \div GCD(a.den, b.den)) + b.num * (a.den \div GCD(a.den, b.den)),
        (a.den \div GCD(a.den, b.den)) * b.den)
RatSub(a, b) == RatAdd(a, [num |-> -b.num, den |-> b.den])
\* v > 1
GreaterThanOne(v) == v.num > v.den

LTRB == {"left", "top", "right", "bottom"}
LTWH == {"left", "top", "width", "height"}

\* line 660: the bbox given to a field that has none
DefaultBBox ==
    [left |-> Rat(0, 1), top |-> Rat(0, 1), width |-> Rat(0, 1), height |-> Rat(0, 1)]

\* mutant: a coordinate equal to 1 counts as absolute
AnyExceedsOne_or_equal(bbox, keys) == \E k \in keys : bbox[k].num >= bbox[k].den

\* lines 675 and 693: any(bbox[key] > 1 for key in keys)
AnyExceedsOne(bbox, keys) == \E k \in keys : GreaterThanOne(bbox[k])

\* comparing or dividing a value that is no number raises TypeError
AllNumbers(bbox, keys) == \A k \in keys : bbox[k] # None

\* lines 687-689
AddWidthHeight(normalized_bbox) ==
    [k \in DOMAIN normalized_bbox \cup {"width", "height"} |->
        IF k = "width" THEN RatSub(normalized_bbox["right"], normalized_bbox["left"])
        ELSE IF k = "height" THEN RatSub(normalized_bbox["bottom"], normalized_bbox["top"])
        ELSE normalized_bbox[k]]

\* lines 705-707
AddRightBottom(normalized_bbox) ==
    [k \in DOMAIN normalized_bbox \cup {"right", "bottom"} |->
        IF k = "right" THEN RatAdd(normalized_bbox["left"], normalized_bbox["width"])
        ELSE IF k = "bottom" THEN RatAdd(normalized_bbox["top"], normalized_bbox["height"])
        ELSE normalized_bbox[k]]

\* lines 672-711 on a dict: [status, bbox], status "normalized", "invalid"
\* (the bbox is left as it is) or "raised"
NormalizeBBox(bbox, page_image) ==
    IF LTRB \subseteq DOMAIN bbox
    THEN IF ~AllNumbers(bbox, LTRB) THEN [status |-> "raised", bbox |-> bbox]
         ELSE [status |-> "normalized",
               bbox |-> AddWidthHeight(
                   IF AnyExceedsOne(bbox, LTRB)
                   THEN [left |-> RatDiv(bbox["left"], page_image.width),
                         top |-> RatDiv(bbox["top"], page_image.height),
                         right |-> RatDiv(bbox["right"], page_image.width),
                         bottom |-> RatDiv(bbox["bottom"], page_image.height)]
                   ELSE bbox)]
    ELSE IF LTWH \subseteq DOMAIN bbox
    THEN IF ~AllNumbers(bbox, LTWH) THEN [status |-> "raised", bbox |-> bbox]
         ELSE [status |-> "normalized",
               bbox |-> AddRightBottom(
                   IF AnyExceedsOne(bbox, LTWH)
                   THEN [left |-> RatDiv(bbox["left"], page_image.width),
                         top |-> RatDiv(bbox["top"], page_image.height),
                         width |-> RatDiv(bbox["width"], page_image.width),
                         height |-> RatDiv(bbox["height"], page_image.height)]
                   ELSE bbox)]
    ELSE [status |-> "invalid", bbox |-> bbox]

DictBBox(d) == [kind |-> "dict", dict |-> d, vertices |-> <<>>]
ListBBox(vertices) == [kind |-> "list", dict |-> <<>>, vertices |-> vertices]
NoneBBox == [kind |-> "None", dict |-> <<>>, vertices |-> <<>>]

\* line 659: not field["bbox"]
Falsy(bbox) ==
    \/ bbox.kind = "None"
    \/ bbox.kind = "dict" /\ DOMAIN bbox.dict = {}
    \/ bbox.kind = "list" /\ bbox.vertices = <<>>

\* lines 709-714, given the outcome of the normalization: [raised, field]
UpdateField(field, n) ==
    [raised |-> n.status = "raised",
     field |-> IF n.status = "normalized"
               THEN [field EXCEPT !.bbox = DictBBox(n.bbox)]
               ELSE field]

\* lines 657-714: one iteration of the loop over processed_fields
NormalizeField(field, page_number, page_image) ==
    IF field.page # page_number THEN [raised |-> FALSE, field |-> field]
    ELSE IF ~field.hasBBox \/ Falsy(field.bbox)
    THEN [raised |-> FALSE,
          field |-> [field EXCEPT !.hasBBox = TRUE, !.bbox = DictBBox(DefaultBBox)]]
    ELSE IF field.bbox.kind = "list"
    THEN [raised |-> FALSE, field |-> field]     \* no key is in a list: invalid format
    ELSE UpdateField(field, NormalizeBBox(field.bbox.dict, page_image))

\* acc = [raised, fields]; an exception leaves the loop
SetField(acc, i, step) ==
    [raised |-> step.raised, fields |-> [acc.fields EXCEPT ![i] = step.field]]

\* lines 656-714: the loop over processed_fields
RECURSIVE NormalizeFields(_, _, _, _)
NormalizeFields(acc, i, page_number, page_image) ==
    IF acc.raised \/ i > Len(acc.fields) THEN acc
    ELSE NormalizeFields(
             SetField(acc, i, NormalizeField(acc.fields[i], page_number, page_image)),
             i + 1, page_number, page_image)

(***************************************************************************)
(* Explored fields and page images (specification SpecVisualize).          *)
(***************************************************************************)
XInputs == { Rat(1, 4), Rat(1, 1), Rat(400, 1), Rat(1200, 1) }
YInputs == { Rat(0, 1), Rat(1, 2), Rat(300, 1) }

BBoxInputs ==
    { DictBBox([left |-> l, top |-> t, right |-> r, bottom |-> b]) :
        l \in XInputs, r \in XInputs, t \in YInputs, b \in YInputs }
    \cup { DictBBox([left |-> l, top |-> t, width |-> w, height |-> h]) :
        l \in XInputs, w \in XInputs, t \in YInputs, h \in YInputs }
    \cup { DictBBox([left |-> Rat(1, 4), top |-> None,
                     right |-> Rat(1, 2), bottom |-> Rat(1, 2)]),
           DictBBox([left |-> Rat(1, 4), top |-> Rat(1, 4)]),
           DictBBox([x |-> Rat(1, 4), y |-> Rat(1, 4),
                     width |-> Rat(1, 4), height |-> Rat(1, 4)]),
           DictBBox(<<>>),
           ListBBox(<< [x |-> Rat(1, 10), y |-> Rat(1, 10)],
                       [x |-> Rat(1, 5), y |-> Rat(1, 10)],
                       [x |-> Rat(1, 5), y |-> Rat(1, 5)],
                       [x |-> Rat(1, 10), y |-> Rat(1, 5)] >>),
           ListBBox(<<>>),
           NoneBBox }

Field(id, page_number, bbox) ==
    [hasId |-> TRUE, id |-> id, page |-> page_number, hasBBox |-> TRUE, bbox |-> bbox]
FieldWithoutBBox(id, page_number) ==
    [hasId |-> TRUE, id |-> id, page |-> page_number, hasBBox |-> FALSE, bbox |-> NoneBBox]
\* a field dict without the key "id"
FieldWithoutId(page_number, bbox) ==
    [hasId |-> FALSE, id |-> "", page |-> page_number, hasBBox |-> TRUE, bbox |-> bbox]

\* one field on page 1, or two fields of which one has a fixed bbox
FieldsInputs ==
    { << Field("f0", 1, b) >> : b \in BBoxInputs }
    \cup { << FieldWithoutBBox("f0", 1) >>, <<>> }
    \cup { << Field("f0", g[1], g[2]), Field("f1", 1, b) >> :
             g \in { <<1, DictBBox([left |-> Rat(1, 4), top |-> None,
                                    right |-> Rat(1, 2), bottom |-> Rat(1, 2)])>>,
                     <<2, DictBBox([left |-> Rat(400, 1), top |-> Rat(300, 1),
                                    width |-> Rat(200, 1), height |-> Rat(100, 1)])>> },
             b \in { DictBBox([left |-> Rat(400, 1), top |-> Rat(300, 1),
                               right |-> Rat(800, 1), bottom |-> Rat(600, 1)]),
                     NoneBBox } }
    \cup { << FieldWithoutId(1, b) >> :
             b \in { DictBBox([left |-> Rat(400, 1), top |-> Rat(300, 1),
                               right |-> Rat(800, 1), bottom |-> Rat(600, 1)]),
                     DictBBox([left |-> Rat(1, 4), top |-> Rat(0, 1),
                               width |-> Rat(1, 4), height |-> Rat(1, 2)]) } }
    \cup { << Field("f0", 1, DictBBox([left |-> Rat(1, 4), top |-> Rat(0, 1),
                                       right |-> Rat(1, 1), bottom |-> Rat(1, 2)])),
              FieldWithoutId(2, NoneBBox) >> }

PageImages == { [width |-> 800, height |-> 1000] }

(***************************************************************************)
(* visualize_extracted_fields, from line 563 on (the PDF file exists).     *)
(***************************************************************************)
InitVisualize ==
    /\ pc = "visualize"
    /\ fields_data \in FieldsInputs
    /\ processed_fields = <<>>
    /\ page_images = <<>>
    /\ page_idx = 0
    /\ calls = 0
    /\ result = NoResult
    /\ outcome = "none"
    /\ exc = ""
    /\ file = "readable"
    /\ document = NoneDocument
    /\ validation = NoValidation
    /\ page = NoPage
    /\ text = <<>>
    /\ checkboxes = <<>>

\* str(uuid.uuid4()) for the field at position i
uuid4 == << "uuid_1", "uuid_2", "uuid_3" >>

\* lines 575-576, for every field of fields_data: the caller's dict gets an id
EnsureIds(fields) ==
    [i \in 1..Len(fields) |->
        IF fields[i].hasId THEN fields[i]
        ELSE [fields[i] EXCEPT !.hasId = TRUE, !.id = uuid4[i]]]

\* lines 563-583: the result, the ids and the copies of the fields
CopyFields ==
    /\ pc = "visualize"
    /\ result' = [total_pages |-> 0, pages |-> <<>>, fields |-> <<>>]
    /\ fields_data' = EnsureIds(fields_data)
    /\ processed_fields' = EnsureIds(fields_data)
    /\ calls' = calls + 1
    /\ outcome' = "none"
    /\ pc' = "convert"
    /\ UNCHANGED << file, document, validation, exc, page, text, checkboxes,
                    page_images, page_idx >>

\* lines 588-590
ConvertFromPath ==
    /\ pc = "convert"
    /\ \E images \in SeqsUpTo(PageImages, MaxPages) :
           /\ page_images' = images
           /\ result' = [result EXCEPT !.total_pages = Len(images)]
    /\ page_idx' = 0
    /\ pc' = "pages"
    /\ UNCHANGED << file, document, validation, outcome, exc, page, text, checkboxes,
                    fields_data, processed_fields, calls >>

\* line 588: convert_from_path raises
ConvertFromPathRaises ==
    /\ pc = "convert"
    /\ pc' = "pdf_error"
    /\ UNCHANGED << file, document, validation, result, outcome, exc, page, text,
                    checkboxes, visualization_vars >>

\* lines 634-636: the page image could not be saved in any format
SkipPage ==
    /\ pc = "pages"
    /\ page_idx < Len(page_images)
    /\ page_idx' = page_idx + 1
    /\ UNCHANGED << pc, file, document, validation, result, outcome, exc, page, text,
                    checkboxes, fields_data, processed_fields, page_images, calls >>

\* lines 647-714, given the outcome of the loop over the fields
Rendered(normalized) ==
    /\ result' = [result EXCEPT !.pages =
                     Append(@, [page_number |-> page_idx + 1,
                                width |-> page_images[page_idx + 1].width,
                                height |-> page_images[page_idx + 1].height])]
    /\ processed_fields' = normalized.fields
    /\ IF normalized.raised
       THEN pc' = "pdf_error" /\ page_idx' = page_idx
       ELSE pc' = pc /\ page_idx' = page_idx + 1
    /\ UNCHANGED << file, document, validation, outcome, exc, page, text, checkboxes,
                    fields_data, page_images, calls >>

\* lines 593-714: one page image, saved
RenderPage ==
    /\ pc = "pages"
    /\ page_idx < Len(page_images)
    /\ Rendered(NormalizeFields([raised |-> FALSE, fields |-> processed_fields], 1,
                                page_idx + 1, page_images[page_idx + 1]))

\* lines 716-739: the placeholder page is added when its image exists
PdfError ==
    /\ pc = "pdf_error"
    /\ \E placeholder \in BOOLEAN :
           result' = [error |-> "PDF_CONVERSION_FAILED",
                      total_pages |-> IF placeholder THEN 1 ELSE result.total_pages,
                      pages |-> IF placeholder
                                THEN Append(result.pages,
                                            [page_number |-> 1, width |-> 800,
                                             height |-> 1000])
                                ELSE result.pages,
                      fields |-> result.fields]
    /\ pc' = "finish"
    /\ UNCHANGED << file, document, validation, outcome, exc, page, text, checkboxes,
                    visualization_vars >>

\* lines 741-751
ReturnResult ==
    /\ \/ pc = "pages" /\ page_idx = Len(page_images)
       \/ pc = "finish"
    /\ result' = [result EXCEPT !.fields = processed_fields]
    /\ outcome' = "returned"
    /\ pc' = "returned"
    /\ UNCHANGED << file, document, validation, exc, page, text, checkboxes,
                    visualization_vars >>

\* lines 746-748 raise, lines 753-778: the error result carries fields_data
MetadataWriteFails ==
    /\ \/ pc = "pages" /\ page_idx = Len(page_images)
       \/ pc = "finish"
    /\ result' = [error |-> "VISUALIZATION_FAILED", total_pages |-> 0,
                  pages |-> <<>>, fields |-> fields_data]
    /\ outcome' = "returned"
    /\ pc' = "returned"
    /\ UNCHANGED << file, document, validation, exc, page, text, checkboxes,
                    visualization_vars >>

\* app.py, visualize_document_fields: the fields of a request are visualized;
\* here the fields a previous call returned for the same PDF
VisualizeDocumentFields ==
    /\ pc = "returned"
    /\ calls < MaxCalls
    /\ "error" \notin DOMAIN result
    /\ fields_data' = result.fields
    /\ pc' = "visualize"
    /\ UNCHANGED << file, document, validation, result, outcome, exc, page, text,
                    checkboxes, processed_fields, page_images, page_idx, calls >>

NextVisualize ==
    \/ CopyFields
    \/ ConvertFromPath
    \/ ConvertFromPathRaises
    \/ SkipPage
    \/ RenderPage
    \/ PdfError
    \/ ReturnResult
    \/ MetadataWriteFails
    \/ VisualizeDocumentFields

SpecVisualize == InitVisualize /\ [][NextVisualize]_vars

(***************************************************************************)
(* Properties of the bbox normalization (specification SpecVisualize).     *)
(***************************************************************************)
SixKeys == LTRB \cup LTWH

\* a call has returned its result without an error entry
ReturnedWithoutError == pc = "returned" /\ "error" \notin DOMAIN result

\* the page of field i has been rendered by the call that returned
OnRenderedPage(i) ==
    \E p \in 1..Len(result.pages) : result.pages[p].page_number = result.fields[i].page

\* field i of the input carries a bbox the previous call normalized
NormalizedBefore(i) ==
    /\ fields_data[i].hasBBox
    /\ fields_data[i].bbox.kind = "dict"
    /\ DOMAIN fields_data[i].bbox.dict = SixKeys

\* C18: normalization is idempotent: a bbox that a call has normalized comes
\* out of a second call, for the same page width and height, unchanged.
C18_NormalizationIdempotent ==
    (ReturnedWithoutError /\ calls >= 2) =>
        \A i \in 1..Len(result.fields) :
            NormalizedBefore(i) => result.fields[i].bbox = fields_data[i].bbox

\* field i of the input carries a bbox in LTRB or in LTWH form, of numbers
PureForm(i) ==
    /\ fields_data[i].hasBBox
    /\ fields_data[i].bbox.kind = "dict"
    /\ DOMAIN fields_data[i].bbox.dict \in {LTRB, LTWH}
    /\ \A k \in DOMAIN fields_data[i].bbox.dict : fields_data[i].bbox.dict[k] # None

\* the size of the page image that divides the coordinate of key k
PageSizeFor(k, page_number) ==
    IF k \in {"left", "right", "width"}
    THEN page_images[page_number].width ELSE page_images[page_number].height

\* out = v / n
IsQuotient(out, v, n) == out.num * v.den * n = v.num * out.den
\* a + b = c
IsSum(a, b, c) == a.num * b.den * c.den + b.num * a.den * c.den = c.num * a.den * b.den

\* C19: a bbox in LTRB or LTWH form on a rendered page has left, right and
\* width divided by the page width and top, bottom and height by the page
\* height exactly when one of its coordinates exceeds 1, and is unchanged
\* otherwise; the output carries left, top, right, bottom, width and height
\* with right = left + width and bottom = top + height (so the width and
\* height of an LTWH input are reproduced, scaled or not like the rest).
C19_DividesWhenAbsolute ==
    (ReturnedWithoutError /\ calls = 1) =>
        \A i \in 1..Len(result.fields) :
            (PureForm(i) /\ OnRenderedPage(i)) =>
                LET bbox == fields_data[i].bbox.dict
                    out == result.fields[i].bbox.dict
                    absolute == \E k \in DOMAIN bbox : bbox[k].num > bbox[k].den
                IN /\ result.fields[i].bbox.kind = "dict"
                   /\ DOMAIN out = SixKeys
                   /\ IsSum(out["left"], out["width"], out["right"])
                   /\ IsSum(out["top"], out["height"], out["bottom"])
                   /\ \A k \in DOMAIN bbox :
                          IF absolute
                          THEN IsQuotient(out[k], bbox[k], PageSizeFor(k, fields_data[i].page))
                          ELSE out[k] = bbox[k]

C19_Witness ==
    /\ ReturnedWithoutError
    /\ calls = 1
    /\ Len(result.fields) = 1
    /\ DOMAIN fields_data[1].bbox.dict = LTWH
    /\ fields_data[1].bbox.dict["left"] = Rat(400, 1)
    /\ fields_data[1].bbox.dict["width"] = Rat(400, 1)
    /\ fields_data[1].bbox.dict["height"] = Rat(1, 2)
    /\ result.fields[1].bbox.dict["left"] = Rat(1, 2)
    /\ result.fields[1].bbox.dict["right"] = Rat(1, 1)
    /\ result.fields[1].bbox.dict["height"] = Rat(1, 2000)

\* 0 <= v <= 1
InUnitInterval(v) == v # None /\ v.num >= 0 /\ v.num <= v.den
\* a < b
LessThan(a, b) == a.num * b.den < b.num * a.den

\* C20: after the normalization step has run over the fields of a rendered
\* page, every bbox on a field of that page is a normalized LTRB box: all
\* coordinates in [0, 1], right > left and bottom > top.
C20_NormalizedLTRBAfterRendering ==
    ReturnedWithoutError =>
        \A i \in 1..Len(result.fields) :
            (OnRenderedPage(i) /\ result.fields[i].hasBBox) =>
                /\ result.fields[i].bbox.kind = "dict"
                /\ LTRB \subseteq DOMAIN result.fields[i].bbox.dict
                /\ \A k \in LTRB : InUnitInterval(result.fields[i].bbox.dict[k])
                /\ LessThan(result.fields[i].bbox.dict["left"],
                            result.fields[i].bbox.dict["right"])
                /\ LessThan(result.fields[i].bbox.dict["top"],
                            result.fields[i].bbox.dict["bottom"])

(***************************************************************************)
(* The form-field extractors and the merge on one page (specification      *)
(* SpecFields).                                                            *)
(***************************************************************************)
MaxFields == 2

\* "llc check trust x yes ab" followed by a space, U+2611, a space and U+2612
FieldText ==
    << "l", "l", "c", " ", "c", "h", "e", "c", "k", " ", "t", "r", "u", "s", "t", " ",
       "x", " ", "y", "e", "s", " ", "a", "b", " ", "u2611", " ", "u2612" >>

FieldInputs ==
    {
      \* a text field
      FormField(Layout(<< Seg(22, 24) >>), Poly(Rect(1, 1, 4, 1)), Layout(<< Seg(18, 21) >>), ""),
      \* a boolean field reading yes
      FormField(Layout(<< Seg(22, 24) >>), Poly(Rect(1, 1, 4, 1)), Layout(<< Seg(18, 21) >>), "boolean"),
      \* a boolean field reading ab
      FormField(Layout(<< Seg(22, 24) >>), Poly(Rect(1, 1, 4, 1)), Layout(<< Seg(22, 24) >>), "boolean"),
      \* a field of a checkbox value type
      FormField(Layout(<< Seg(22, 24) >>), Poly(Rect(1, 1, 4, 1)), Layout(<< Seg(18, 21) >>), "filled_checkbox"),
      \* an empty field of a checkbox value type
      FormField(Layout(<< Seg(22, 24) >>), Poly(Rect(1, 1, 4, 1)), NoLayout, "unfilled_checkbox"),
      \* a W-9 name with an empty value
      FormField(Layout(<< Seg(0, 3) >>), Poly(Rect(1, 1, 4, 1)), NoLayout, ""),
      \* a W-9 name with a value
      FormField(Layout(<< Seg(0, 3) >>), Poly(Rect(1, 1, 4, 1)), Layout(<< Seg(22, 24) >>), ""),
      \* a name with a checkbox term
      FormField(Layout(<< Seg(4, 9) >>), Poly(Rect(1, 1, 4, 1)), Layout(<< Seg(18, 21) >>), ""),
      \* a value with a checkbox character
      FormField(Layout(<< Seg(22, 24) >>), Poly(Rect(1, 1, 4, 1)), Layout(<< Seg(16, 17) >>), ""),
      \* a checkbox value type with a checked glyph that is no checked word
      FormField(Layout(<< Seg(22, 24) >>), Poly(Rect(1, 1, 4, 1)), Layout(<< Seg(25, 26) >>), "unfilled_checkbox"),
      \* a W-9 name that holds a checkbox term, with a value that is no checked word
      FormField(Layout(<< Seg(0, 9) >>), Poly(Rect(1, 1, 4, 1)), Layout(<< Seg(22, 24) >>), ""),
      \* a W-9 name with an unchecked glyph as value
      FormField(Layout(<< Seg(0, 3) >>), Poly(Rect(1, 1, 4, 1)), Layout(<< Seg(27, 28) >>), ""),
      \* a form-label name with an empty value
      FormField(Layout(<< Seg(10, 15) >>), Poly(Rect(1, 1, 4, 1)), NoLayout, ""),
      \* an empty text field
      FormField(Layout(<< Seg(22, 24) >>), Poly(Rect(1, 1, 4, 1)), NoLayout, ""),
      \* no bounding polygon
      FormField(Layout(<< Seg(22, 24) >>), NoPoly, Layout(<< Seg(18, 21) >>), ""),
      \* a bounding polygon of two vertices
      FormField(Layout(<< Seg(22, 24) >>), Poly(<< V(1, 1), V(5, 1) >>), Layout(<< Seg(18, 21) >>), ""),
      \* no field_value, and no field_name
      [hasFieldName |-> TRUE,
       field_name |-> [layout |-> Layout(<< Seg(22, 24) >>), poly |-> NoPoly],
       hasFieldValue |-> FALSE,
       field_value |-> [layout |-> NoLayout, value_type |-> ""]],
      [hasFieldName |-> FALSE,
       field_name |-> [layout |-> NoLayout, poly |-> NoPoly],
       hasFieldValue |-> TRUE,
       field_value |-> [layout |-> Layout(<< Seg(18, 21) >>), value_type |-> ""]] }

FieldSymbolLists ==
    { << >>,
      << Symbol("checkbox", "checked", Poly(Square)) >>,
      << Symbol("tick_box", "unchecked", Poly(Square)) >> }

FieldPages ==
    { Page(TRUE, FALSE, 0,
           [hasPageNumber |-> n, page_number |-> IF n THEN 7 ELSE 0,
            hasFormFields |-> TRUE, form_fields |-> f,
            hasSymbols |-> TRUE, detected_symbols |-> s,
            hasParagraphs |-> TRUE,
            paragraphs |-> << Paragraph(Rect(4, 2, 2, 2), Layout(<< Seg(22, 24) >>)) >>]) :
        n \in BOOLEAN, f \in SeqsUpTo(FieldInputs, MaxFields), s \in FieldSymbolLists }

\* pc says which operation is about to be applied to the page
InitFields ==
    /\ pc \in {"fields", "client_fields", "merge"}
    /\ page \in FieldPages
    /\ text = FieldText
    /\ document = Document("list", << page >>, <<TRUE, text>>)
    /\ result = NoResult
    /\ outcome = "none"
    /\ exc = ""
    /\ file = "readable"
    /\ validation = NoValidation
    /\ checkboxes = <<>>
    /\ NoVisualization

\* the call's return value
ReturnFields(form_fields, next) ==
    /\ result' = form_fields
    /\ outcome' = "returned"
    /\ pc' = next
    /\ UNCHANGED << file, document, validation, exc, page, text, checkboxes,
                    visualization_vars >>

\* DocumentModel._extract_form_fields(page, text)
ExtractFormFields ==
    /\ pc = "fields"
    /\ ReturnFields(extract_form_fields(page, text), "model_done")

\* DocumentAIClient._extract_form_fields(page, text)
ClientExtractFormFields ==
    /\ pc = "client_fields"
    /\ ReturnFields(client_extract_form_fields(page, text), "client_done")

NextFields == ExtractFormFields \/ ClientExtractFormFields \/ ExtractDocumentData

SpecFields == InitFields /\ [][NextFields]_vars

(***************************************************************************)
(* Properties of the field lists (specification SpecFields).               *)
(***************************************************************************)
TypeMatchesValue(field) == (field.type = "checkbox") <=> field.value.isBool

\* the text the two extractors read from the value layout of a form field
RawValue(field) ==
    IF field.hasFieldValue THEN get_text_from_layout(field.field_value.layout, text)
    ELSE << >>
ClientRawValue(field) ==
    IF field.hasFieldValue THEN client_get_text_from_layout(field.field_value.layout, text)
    ELSE << >>

\* the form fields the client's loop does not skip
ClientKept(field) == ~ClientProcessFormField(field, text, 0).raised

CarriesText(field, raw) == field.type # "checkbox" => field.value = TextValue(raw)

\* C17: in the list of DocumentModel._extract_form_fields, in the list of
\* DocumentAIClient._extract_form_fields and in the merged lists (document and
\* page) a field has type "checkbox" exactly when its value is a boolean; a
\* field of another type carries the text read from its value layout; a field
\* derived from a symbol has type "checkbox" and the boolean is_checked as value.
C17_CheckboxIffBooleanValue ==
    /\ pc = "model_done" =>
           \A i \in 1..Len(result) :
               /\ TypeMatchesValue(result[i])
               /\ CarriesText(result[i], RawValue(page.form_fields[i]))
    /\ pc = "client_done" =>
           /\ Len(result) = Len(SelectSeq(page.form_fields, ClientKept))
           /\ \A i \in 1..Len(result) :
                  /\ TypeMatchesValue(result[i])
                  /\ CarriesText(result[i],
                                 ClientRawValue(SelectSeq(page.form_fields, ClientKept)[i]))
    /\ Merged =>
           /\ \A i \in 1..Len(result.fields) :
                  /\ TypeMatchesValue(result.fields[i])
                  /\ IsSymbolCheckbox(result.fields[i]) =>
                         /\ result.fields[i].type = "checkbox"
                         /\ result.fields[i].value.isBool
                  /\ result.fields[i] = result.pages[1].fields[i]
           /\ Len(result.fields) = Len(result.pages[1].fields)
           /\ \A i \in 1..Len(FormFieldsOf(1)) :
                  CarriesText(FormFieldsOf(1)[i], RawValue(page.form_fields[i]))
           /\ \A i \in 1..Len(SymbolCheckboxesOf(1)) :
                  SymbolCheckboxesOf(1)[i].value = BoolValue(LabelledCheckboxes(1)[i].is_checked)

\* the merge returned a text field reading "yes", a boolean form field and a
\* checkbox derived from a symbol
C17_Witness ==
    /\ Merged
    /\ \E i \in 1..Len(result.fields) :
           /\ IsFormField(result.fields[i])
           /\ result.fields[i].type = "text"
           /\ result.fields[i].value = TextValue(<< "y", "e", "s" >>)
    /\ \E i \in 1..Len(result.fields) :
           /\ IsFormField(result.fields[i])
           /\ result.fields[i].type = "checkbox"
           /\ result.fields[i].value = BoolValue(TRUE)
    /\ \E i \in 1..Len(result.fields) :
           /\ IsSymbolCheckbox(result.fields[i])
           /\ result.fields[i].value = BoolValue(FALSE)

(***************************************************************************)
(* Further properties of visualize_extracted_fields (SpecVisualize).       *)
(***************************************************************************)
\* field i of the input has no bbox, or an empty one
MissingBBox(i) == ~fields_data[i].hasBBox \/ Falsy(fields_data[i].bbox)

\* field i of the input has a bbox with neither the LTRB nor the LTWH keys
LacksKeys(i) ==
    /\ ~MissingBBox(i)
    /\ \/ fields_data[i].bbox.kind = "list"
       \/ /\ fields_data[i].bbox.kind = "dict"
          /\ ~(LTRB \subseteq DOMAIN fields_data[i].bbox.dict)
          /\ ~(LTWH \subseteq DOMAIN fields_data[i].bbox.dict)

\* field i of the input has a bbox of numbers with right <= left or
\* bottom <= top (LTRB), or with width <= 0 or height <= 0 (LTWH)
Degenerate(i) ==
    /\ PureForm(i)
    /\ LET bbox == fields_data[i].bbox.dict
       IN IF DOMAIN bbox = LTRB
          THEN ~LessThan(bbox["left"], bbox["right"]) \/ ~LessThan(bbox["top"], bbox["bottom"])
          ELSE bbox["width"].num <= 0 \/ bbox["height"].num <= 0

\* C21: a call returns as many fields as it was given; and a field of a
\* rendered page whose bbox is missing, lacks the required keys or is
\* degenerate comes out with the default zero-size bbox.
C21_FaultyBBoxReplacedByDefault ==
    /\ pc = "returned" => Len(result.fields) = Len(fields_data)
    /\ (ReturnedWithoutError /\ calls = 1) =>
           \A i \in 1..Len(result.fields) :
               (OnRenderedPage(i) /\ (MissingBBox(i) \/ LacksKeys(i) \/ Degenerate(i))) =>
                   /\ result.fields[i].hasBBox
                   /\ result.fields[i].bbox = DictBBox(DefaultBBox)

\* the keys and values of a field dict
Keys(field) ==
    (IF field.hasId THEN {"id"} ELSE {}) \cup (IF field.hasBBox THEN {"bbox"} ELSE {})
         \cup {"page"}
SameDict(a, b) ==
    /\ Keys(a) = Keys(b)
    /\ a.page = b.page
    /\ a.hasId => a.id = b.id
    /\ a.hasBBox => a.bbox = b.bbox

\* fields_data has after the step the dicts it had before
FieldsDataKept ==
    /\ Len(fields_data') = Len(fields_data)
    /\ \A i \in 1..Len(fields_data) : SameDict(fields_data[i], fields_data'[i])

\* a call of visualize_extracted_fields is under way
InCall == pc \in {"visualize", "convert", "pages", "pdf_error", "finish"}

\* C29: a call of visualize_extracted_fields leaves every field dict of the
\* caller's fields_data with the keys and values it had before the call: no
\* step of the call, from its entry to its return, changes fields_data.
C29_InputUntouched == [][InCall => FieldsDataKept]_vars

(***************************************************************************)
(* Further properties of _extract_checkboxes (SpecCheckboxes).             *)
(***************************************************************************)
\* C22: every candidate returned by _extract_checkboxes has a
\* confidence_score between 0.0 and 1.0 inclusive (the score is kept in
\* hundredths).
C22_ConfidenceInUnitInterval ==
    CheckboxesExtracted =>
        \A i \in 1..Len(checkboxes) :
            /\ checkboxes[i].confidence_score >= 0
            /\ checkboxes[i].confidence_score <= 100

\* a rotated standard checkbox with a label next to it, and a shape-inferred
\* one of unknown state
C22_Witness ==
    /\ CheckboxesExtracted
    /\ Len(checkboxes) = 2
    /\ page.detected_symbols[1] = Symbol("checkbox", "checked", Poly(Diamond))
    /\ checkboxes[1].confidence_score = 90
    /\ checkboxes[2].symbol_type = "inferred_checkbox"
    /\ checkboxes[2].confidence_score < 60

\* the number of distinct x values and of distinct y values of a polygon
DistinctX(poly) == Cardinality({ poly.vertices[j].x : j \in 1..Len(poly.vertices) })
DistinctY(poly) == Cardinality({ poly.vertices[j].y : j \in 1..Len(poly.vertices) })

\* the confidence, in hundredths, of a symbol that gets the rotation factor
\* r (in tenths)
ScoreWith(symbol, r) ==
    RoundHalfEven((IF StandardType(symbol) THEN 10 ELSE 7)
                  * (IF symbol.state \in {"checked", "unchecked"} THEN 10 ELSE 8)
                  * r
                  * find_checkbox_label(page, symbol, text).confidence, 100)

KeptFields == SelectSeq(page.form_fields, ClientKept)

\* name (lower case, trimmed), value and value type as the client reads them
NameLower(field) ==
    strip(client_lower(client_get_text_from_layout(field.field_name.layout, text)))
ValueTypeUpper(field) ==
    IF field.hasFieldValue THEN upper(str(field.field_value.value_type)) ELSE << >>
IsCheckedWord(field) == client_lower(ClientRawValue(field)) \in checked_words

\* the rules of the classifier: when each triggers
Rule1(field) ==
    \/ contains(ValueTypeUpper(field), << "C", "H", "E", "C", "K", "B", "O", "X" >>)
    \/ contains(ValueTypeUpper(field), << "S", "E", "L", "E", "C", "T", "E", "D" >>)
Rule2(field) == \E w \in w9_checkbox_fields : contains(NameLower(field), w)
Rule3(field) == \E t \in checkbox_terms : contains(NameLower(field), t)
Rule4(field) == \E g \in checkbox_chars : contains(ClientRawValue(field), g)
Rule5(field) ==
    /\ strip(ClientRawValue(field)) = << >>
    /\ \E p \in label_patterns : contains(NameLower(field), p)

\* the verdict of the highest-numbered rule among 1 to 4 that triggers
Verdict1to4(field) ==
    IF Rule4(field) THEN \E g \in checked_chars : contains(ClientRawValue(field), g)
    ELSE IF Rule3(field) THEN IsCheckedWord(field)
    ELSE IF Rule2(field) THEN strip(ClientRawValue(field)) # << >>
    ELSE IF Rule1(field) THEN IsCheckedWord(field)
    ELSE FALSE

\* C23: in the list of DocumentAIClient._extract_form_fields a field is a
\* checkbox exactly when at least one of the rules 1 to 5 triggers; the
\* is_checked of a checkbox is the verdict of the highest-numbered rule among
\* 1 to 4 that triggers, and a field that only rule 5 classifies is unchecked.
C23_LastTriggeredRuleDecides ==
    pc = "client_done" =>
        /\ Len(result) = Len(KeptFields)
        /\ \A i \in 1..Len(result) :
               /\ result[i].is_checkbox <=>
                      (Rule1(KeptFields[i]) \/ Rule2(KeptFields[i]) \/ Rule3(KeptFields[i])
                           \/ Rule4(KeptFields[i]) \/ Rule5(KeptFields[i]))
               /\ result[i].is_checkbox =>
                      /\ ~result[i].is_checked.isNone
                      /\ result[i].is_checked.bool = Verdict1to4(KeptFields[i])
                      /\ result[i].value = BoolValue(Verdict1to4(KeptFields[i]))

\* a field of a checkbox value type with the value U+2611: unchecked by rule
\* 1, checked by rule 4; and a field with an empty value that only rule 5
\* classifies
C23_Witness ==
    /\ pc = "client_done"
    /\ Len(result) = 2
    /\ Rule1(page.form_fields[1])
    /\ ~IsCheckedWord(page.form_fields[1])
    /\ Rule4(page.form_fields[1])
    /\ result[1].is_checked.bool
    /\ ~Rule1(page.form_fields[2])
    /\ ~Rule2(page.form_fields[2])
    /\ Rule5(page.form_fields[2])
    /\ result[2].is_checkbox
    /\ ~result[2].is_checked.bool

\* the form fields of the page that DocumentModel._extract_form_fields can
\* parse, in order
ModelParses(field) == ~ProcessFormField(field, text).raised
ModelCandidate(field) == ProcessFormField(field, text).candidate
ClientCandidate(field) ==
    ClientProcessFormField(field, text,
                           IF page.hasPageNumber THEN page.page_number ELSE 1).candidate

\* C28: when parsing one form field of the page raises an exception, the
\* extractor still returns, in order, the records of all the other fields of
\* the page, those before and those after the failing one, and the call
\* returns normally; for DocumentModel._extract_form_fields and for
\* DocumentAIClient._extract_form_fields.
C28_OnlyFailingFieldSkipped ==
    /\ pc = "client_done" =>
           /\ outcome = "returned"
           /\ Len(result) = Len(KeptFields)
           /\ \A i \in 1..Len(result) : result[i] = ClientCandidate(KeptFields[i])
    /\ pc = "model_done" =>
           /\ outcome = "returned"
           /\ Len(result) = Len(SelectSeq(page.form_fields, ModelParses))
           /\ \A i \in 1..Len(result) :
                  result[i] = ModelCandidate(SelectSeq(page.form_fields, ModelParses)[i])

(***************************************************************************)
(* _get_text_from_layout of DocumentModel and of DocumentAIClient applied  *)
(* to the layout of a paragraph (specification SpecLayout).                *)
(***************************************************************************)
MaxSegments == 2

\* "Hello world, this is a test."
HelloText ==
    << "H", "e", "l", "l", "o", " ", "w", "o", "r", "l", "d", ",", " ", "t", "h", "i",
       "s", " ", "i", "s", " ", "a", " ", "t", "e", "s", "t", "." >>

LayoutTexts == { HelloText, SampleText, << " ", "a", "b", " " >>, << >> }

\* segments inside the texts, empty, reversed, and beyond their end
SegmentInputs ==
    { Seg(0, 2), Seg(0, 5), Seg(2, 3), Seg(3, 6), Seg(10, 15), Seg(4, 2), Seg(3, 3),
      Seg(5, 40), Seg(30, 31) }

LayoutInputs ==
    { Layout(segments) : segments \in SeqsUpTo(SegmentInputs, MaxSegments) }
    \cup { NoLayout }

LayoutPages ==
    { Page(TRUE, FALSE, 0,
           [hasPageNumber |-> TRUE, page_number |-> 1,
            hasFormFields |-> FALSE, form_fields |-> <<>>,
            hasSymbols |-> FALSE, detected_symbols |-> <<>>,
            hasParagraphs |-> TRUE,
            paragraphs |-> << Paragraph(Rect(4, 2, 2, 2), layout) >>]) :
        layout \in LayoutInputs }

\* pc says which of the two functions is about to be applied
InitLayout ==
    /\ pc \in {"layout", "client_layout"}
    /\ page \in LayoutPages
    /\ text \in LayoutTexts
    /\ document = NoneDocument
    /\ result = NoResult
    /\ outcome = "none"
    /\ exc = ""
    /\ file = "readable"
    /\ validation = NoValidation
    /\ checkboxes = <<>>
    /\ NoVisualization

\* the call's return value
ReturnText(resolved, next) ==
    /\ result' = resolved
    /\ outcome' = "returned"
    /\ pc' = next
    /\ UNCHANGED << file, document, validation, exc, page, text, checkboxes,
                    visualization_vars >>

\* DocumentModel._get_text_from_layout(paragraph.layout, text)
GetTextFromLayout ==
    /\ pc = "layout"
    /\ ReturnText(get_text_from_layout(page.paragraphs[1].layout, text), "model_text")

\* DocumentAIClient._get_text_from_layout(paragraph.layout, text)
ClientGetTextFromLayout ==
    /\ pc = "client_layout"
    /\ ReturnText(client_get_text_from_layout(page.paragraphs[1].layout, text),
                  "client_text")

NextLayout == GetTextFromLayout \/ ClientGetTextFromLayout

SpecLayout == InitLayout /\ [][NextLayout]_vars

(***************************************************************************)
(* Properties of the text resolution (specification SpecLayout).           *)
(***************************************************************************)
\* the offsets of a segment lie in the text
InRange(segment) ==
    /\ 0 <= segment.start_index /\ segment.start_index <= Len(text)
    /\ 0 <= segment.end_index /\ segment.end_index <= Len(text)

\* the characters at the zero-based positions start_index .. end_index - 1
SliceOf(segment) ==
    [k \in 1..(IF segment.end_index > segment.start_index
               THEN segment.end_index - segment.start_index ELSE 0) |->
        text[segment.start_index + k]]

\* the slices of the first n segments that are in range, one after the other
RECURSIVE ConcatInRange(_, _)
ConcatInRange(segments, n) ==
    IF n = 0 THEN << >>
    ELSE ConcatInRange(segments, n - 1)
         \o (IF InRange(segments[n]) THEN SliceOf(segments[n]) ELSE << >>)

\* s without its leading and trailing blanks
Trimmed(s) ==
    LET inner == { k \in 1..Len(s) : s[k] # " " }
    IN IF inner = {} THEN << >>
       ELSE SubSeq(s, CHOOSE a \in inner : \A b \in inner : a <= b,
                      CHOOSE a \in inner : \A b \in inner : a >= b)

\* C24: the text that either _get_text_from_layout resolves for a layout is
\* the concatenation, in order and with nothing in between, of text[start:end]
\* over the segments whose offsets are in range, trimmed of surrounding
\* whitespace; a segment out of range contributes nothing, and the call
\* returns.
C24_ConcatenationOfSegments ==
    pc \in {"model_text", "client_text"} =>
        /\ outcome = "returned"
        /\ result =
               IF page.paragraphs[1].layout.present
               THEN Trimmed(ConcatInRange(page.paragraphs[1].layout.segments,
                                          Len(page.paragraphs[1].layout.segments)))
               ELSE << >>

(***************************************************************************)
(* Further properties of _find_checkbox_label (specification SpecLabel).   *)
(***************************************************************************)
\* paragraph i lies strictly right of, left of, below the symbol
RightOf(i) == ParagraphCenter(i).x > SymbolCenter.x
LeftOf(i) == ParagraphCenter(i).x < SymbolCenter.x
Below(i) == ParagraphCenter(i).y > SymbolCenter.y

\* the squared distance d of paragraph i, times 0.8 squared when it is right
\* of the symbol and times 0.9 squared when it is below it with d < 0.05
ReadingOrderDistance(i) ==
    LET d == RawDistance(i)
        right == IF RightOf(i) THEN 16 * (d \div 25) ELSE d
    IN IF Below(i) /\ d < Threshold(5) THEN 81 * (right \div 100) ELSE right

\* the paragraph of smallest weighted distance, the earliest of equals
First ==
    CHOOSE i \in PlacedParagraphs :
        \A j \in PlacedParagraphs :
            \/ ReadingOrderDistance(i) < ReadingOrderDistance(j)
            \/ ReadingOrderDistance(i) = ReadingOrderDistance(j) /\ i <= j

C26_RightHandParagraphPreferred ==
    Labelled =>
        \A r \in PlacedParagraphs, l \in PlacedParagraphs :
            (/\ PlacedParagraphs = {r, l}
             /\ RightOf(r)
             /\ LeftOf(l)
             /\ RawDistance(r) <= Threshold(20)
             /\ RawDistance(l) <= Threshold(20)) =>
                result.label = TextLabel(ParagraphText(r))

\* C30: the confidence _find_checkbox_label returns is one of 1.0, 0.9, 0.8,
\* 0.7, 0.5 and 0.2 (in tenths), never 0.6.
C30_NoSixTenths ==
    Labelled => result.confidence \in {10, 9, 8, 7, 5, 2}

\* the winner is farther than 0.2 (tier 0.6) and the fallback is returned
C30_Witness ==
    /\ Labelled
    /\ PlacedParagraphs # {}
    /\ ReadingOrderDistance(First) > Threshold(20)
    /\ result.confidence = 5

====
